---- MODULE Spec2Model ----
(***************************************************************************)
(* Model of the workout-cell flattening pipeline of                        *)
(* archive/data_utils/flatten_workout.py.                                  *)
(*                                                                         *)
(* Text is a sequence of one-character strings.  The regular expressions   *)
(* of the source are written out as matchers over such sequences; a        *)
(* position is the 1-based index of the next character to read.            *)
(* Whitespace is the space and the tab.  An optional text value (None in   *)
(* the source) is the empty sequence: the source only stores "x or None".  *)
(***************************************************************************)
EXTENDS Integers, Sequences, FiniteSets, TLC

VARIABLES shape, cell, pc, pw, parts, rows, exc,
          columns, sheet, frame, out, fpc,
          given, once, twice, npc,
          paths, checked, all_parts, full_csv, clean_csv, status, mpc,
          values, current_session_info, call, returned,
          stored, cache, cache_fresh, dbcall, dbret,
          expand_arg, expand_blob, prev, epc

parserVars == <<shape, cell, pc, pw, parts, rows, exc>>

sheetVars == <<columns, sheet, frame, out, fpc>>

normVars == <<given, once, twice, npc>>

mainVars == <<paths, checked, all_parts, full_csv, clean_csv, status, mpc>>

apiVars == <<values, current_session_info, call, returned>>

dbVars == <<stored, cache, cache_fresh, dbcall, dbret>>

expandVars == <<expand_arg, expand_blob, prev, epc>>

vars == <<parserVars, sheetVars, normVars, mainVars, apiVars, dbVars, expandVars>>

(***************************************************************************)
(* Characters and elementary text operations                               *)
(***************************************************************************)
None == <<>>

Digits == {"0","1","2","3","4","5","6","7","8","9"}

LowerLetters == {"a","b","c","d","e","f","g","h","i","j","k","l","m",
                 "n","o","p","q","r","s","t","u","v","w","x","y","z"}

UpperLetters == {"A","B","C","D","E","F","G","H","I","J","K","L","M",
                 "N","O","P","Q","R","S","T","U","V","W","X","Y","Z"}

IsDigit(c) == c \in Digits

IsAlpha(c) == c \in LowerLetters \cup UpperLetters

IsSpace(c) == c \in {" ", "\t"}

IsWordChar(c) == IsDigit(c) \/ IsAlpha(c) \/ c = "_"

DigitVal(c) ==
  CASE c = "0" -> 0 [] c = "1" -> 1 [] c = "2" -> 2 [] c = "3" -> 3
    [] c = "4" -> 4 [] c = "5" -> 5 [] c = "6" -> 6 [] c = "7" -> 7
    [] c = "8" -> 8 [] c = "9" -> 9

UpperChar(c) ==
  CASE c = "a" -> "A" [] c = "b" -> "B" [] c = "c" -> "C" [] c = "d" -> "D"
    [] c = "e" -> "E" [] c = "f" -> "F" [] c = "g" -> "G" [] c = "h" -> "H"
    [] c = "i" -> "I" [] c = "j" -> "J" [] c = "k" -> "K" [] c = "l" -> "L"
    [] c = "m" -> "M" [] c = "n" -> "N" [] c = "o" -> "O" [] c = "p" -> "P"
    [] c = "q" -> "Q" [] c = "r" -> "R" [] c = "s" -> "S" [] c = "t" -> "T"
    [] c = "u" -> "U" [] c = "v" -> "V" [] c = "w" -> "W" [] c = "x" -> "X"
    [] c = "y" -> "Y" [] c = "z" -> "Z" [] OTHER -> c

LowerChar(c) ==
  CASE c = "A" -> "a" [] c = "B" -> "b" [] c = "C" -> "c" [] c = "D" -> "d"
    [] c = "E" -> "e" [] c = "F" -> "f" [] c = "G" -> "g" [] c = "H" -> "h"
    [] c = "I" -> "i" [] c = "J" -> "j" [] c = "K" -> "k" [] c = "L" -> "l"
    [] c = "M" -> "m" [] c = "N" -> "n" [] c = "O" -> "o" [] c = "P" -> "p"
    [] c = "Q" -> "q" [] c = "R" -> "r" [] c = "S" -> "s" [] c = "T" -> "t"
    [] c = "U" -> "u" [] c = "V" -> "v" [] c = "W" -> "w" [] c = "X" -> "x"
    [] c = "Y" -> "y" [] c = "Z" -> "z" [] OTHER -> c

Upper(s) == [i \in 1..Len(s) |-> UpperChar(s[i])]

Lower(s) == [i \in 1..Len(s) |-> LowerChar(s[i])]

\* sub occurs in txt
Contains(txt, sub) ==
  \E i \in 1..(Len(txt) - Len(sub) + 1) : SubSeq(txt, i, i + Len(sub) - 1) = sub

SetMin(S) == CHOOSE x \in S : \A y \in S : x <= y

SetMax(S) == CHOOSE x \in S : \A y \in S : y <= x

\* s[i:], the text from position i on
From(s, i) == SubSeq(s, i, Len(s))

\* s[i:j], the text from position i up to, not including, position j
Slice(s, i, j) == SubSeq(s, i, j - 1)

\* first position at or after i whose character is not a space
SkipSpaces(s, i) ==
  LET stop == {j \in i..Len(s) : ~IsSpace(s[j])}
  IN  IF stop = {} THEN Len(s) + 1 ELSE SetMin(stop)

\* first position at or after i whose character is not a digit
SkipDigits(s, i) ==
  LET stop == {j \in i..Len(s) : ~IsDigit(s[j])}
  IN  IF stop = {} THEN Len(s) + 1 ELSE SetMin(stop)

\* first position at or after i whose character is not a letter
SkipAlpha(s, i) ==
  LET stop == {j \in i..Len(s) : ~IsAlpha(s[j])}
  IN  IF stop = {} THEN Len(s) + 1 ELSE SetMin(stop)

\* str.strip()
Strip(s) ==
  LET keep == {j \in 1..Len(s) : ~IsSpace(s[j])}
  IN  IF keep = {} THEN <<>> ELSE SubSeq(s, SetMin(keep), SetMax(keep))

\* the characters of s that satisfy the position predicate keep, in order
RECURSIVE SelectPos(_, _, _)
SelectPos(s, keep, i) ==
  IF i > Len(s) THEN <<>>
  ELSE (IF i \in keep THEN <<s[i]>> ELSE <<>>) \o SelectPos(s, keep, i + 1)

\* str.split(sep) for a one-character separator
RECURSIVE SplitFrom(_, _, _)
SplitFrom(s, sep, i) ==
  LET hits == {j \in i..Len(s) : s[j] = sep}
  IN  IF hits = {} THEN <<From(s, i)>>
      ELSE <<Slice(s, i, SetMin(hits))>> \o SplitFrom(s, sep, SetMin(hits) + 1)

Split(s, sep) == SplitFrom(s, sep, 1)

\* sep.join(xs)
RECURSIVE Join(_, _)
Join(xs, sep) ==
  IF xs = <<>> THEN <<>>
  ELSE IF Len(xs) = 1 THEN xs[1]
  ELSE xs[1] \o sep \o Join(Tail(xs), sep)

\* \b at position i: exactly one of s[i-1], s[i] is a word character
WordBoundary(s, i) ==
  LET before == i > 1 /\ i - 1 <= Len(s) /\ IsWordChar(s[i - 1])
      after  == i >= 1 /\ i <= Len(s) /\ IsWordChar(s[i])
  IN  before # after

(***************************************************************************)
(* Numbers.  A float is an exact decimal [m, e] standing for m / 10^e,     *)
(* with no trailing fractional zero, so 12 and 12.0 are the same value.    *)
(* m = -1 stands for the ValueError float() and int() raise.               *)
(***************************************************************************)
RECURSIVE DigitsValue(_)
DigitsValue(s) ==
  IF s = <<>> THEN 0 ELSE 10 * DigitsValue(SubSeq(s, 1, Len(s) - 1)) + DigitVal(s[Len(s)])

ValueError == [m |-> -1, e |-> 0]

RECURSIVE NormDec(_)
NormDec(d) ==
  IF d.e > 0 /\ d.m % 10 = 0 THEN NormDec([m |-> d.m \div 10, e |-> d.e - 1]) ELSE d

\* float(s) for the decimal literals digits[.digits]
Float(s) ==
  LET dots == {j \in 1..Len(s) : s[j] = "."}
      dot  == IF dots = {} THEN Len(s) + 1 ELSE SetMin(dots)
      ip   == Slice(s, 1, dot)
      fp   == From(s, dot + 1)
      ok   == /\ Cardinality(dots) <= 1
              /\ Len(ip) + Len(fp) >= 1
              /\ \A j \in 1..Len(s) : IsDigit(s[j]) \/ s[j] = "."
  IN  IF ok THEN NormDec([m |-> DigitsValue(ip \o fp), e |-> Len(fp)]) ELSE ValueError

\* int(s) for digit strings
Int0(s) ==
  IF s # <<>> /\ \A j \in 1..Len(s) : IsDigit(s[j]) THEN DigitsValue(s) ELSE -1

(***************************************************************************)
(* normalize_tokens (flatten_workout.py:10-14)                             *)
(***************************************************************************)
\* only the one space that touches OP disappears
SquashAround_adjacent(s, op) ==
  SelectPos(s, {j \in 1..Len(s) :
                  ~(IsSpace(s[j]) /\ \/ (j > 1 /\ s[j - 1] = op)
                                     \/ (j < Len(s) /\ s[j + 1] = op))}, 1)

\* re.sub(r"\s*OP\s*", "OP", s): every run of spaces next to OP disappears
SquashAround(s, op) ==
  LET left(j)  == {k \in 1..(j - 1) : ~IsSpace(s[k])}
      right(j) == {k \in (j + 1)..Len(s) : ~IsSpace(s[k])}
      nextTo(j) == \/ left(j) # {} /\ s[SetMax(left(j))] = op
                   \/ right(j) # {} /\ s[SetMin(right(j))] = op
      keep == {j \in 1..Len(s) : ~(IsSpace(s[j]) /\ nextTo(j))}
  IN  SelectPos(s, keep, 1)

\* v named x in F: the value of an expression bound once and used in F
Bind(v, F(_)) == F(v)

\* re.sub(r"\s+", " ", s): one space for every run of whitespace
CollapseSpaces(s) ==
  Bind(SelectPos(s, {j \in 1..Len(s) : ~(IsSpace(s[j]) /\ j > 1 /\ IsSpace(s[j - 1]))}, 1),
       LAMBDA kept : [k \in 1..Len(kept) |-> IF IsSpace(kept[k]) THEN " " ELSE kept[k]])

normalize_tokens(s) == CollapseSpaces(SquashAround(SquashAround(Strip(s), "+"), "*"))

(***************************************************************************)
(* Shared pieces of the regular expressions                                *)
(***************************************************************************)
\* [0-9][0-9.]* in place of the number: dots are read as part of the number
MatchNumber_dots(s, i) ==
  LET stop == {j \in i..Len(s) : ~(IsDigit(s[j]) \/ s[j] = ".")}
  IN  IF i > Len(s) \/ ~IsDigit(s[i]) THEN 0
      ELSE IF stop = {} THEN Len(s) + 1 ELSE SetMin(stop)

\* [0-9]+(?:\.[0-9]+)? at position i: the position after the match, 0 if none
MatchNumber(s, i) ==
  Bind(SkipDigits(s, i), LAMBDA d :
    IF i > Len(s) \/ d = i THEN 0
    ELSE IF d + 1 <= Len(s) /\ s[d] = "." /\ IsDigit(s[d + 1])
         THEN SkipDigits(s, d + 1)
         ELSE d)

\* the character at position i, folded to lower case under re.I
CharAt(s, i, ci) == IF i > Len(s) THEN "" ELSE IF ci THEN LowerChar(s[i]) ELSE s[i]

\* (lb?s?|po|kg?s?) at position i: the end positions of the ways to match,
\* in the order the regex engine tries them (greedy optional letters first)
UnitEnds(s, i, ci) ==
  LET c0 == CharAt(s, i, ci)
      c1 == CharAt(s, i + 1, ci)
      c2 == CharAt(s, i + 2, ci)
      opt(x) == (IF c1 = x /\ c2 = "s" THEN <<i + 3>> ELSE <<>>)
                \o (IF c1 = x THEN <<i + 2>> ELSE <<>>)
                \o (IF c1 = "s" THEN <<i + 2>> ELSE <<>>)
                \o <<i + 1>>
  IN  IF c0 = "l" THEN opt("b")
      ELSE IF c0 = "p" THEN (IF c1 = "o" THEN <<i + 2>> ELSE <<>>)
      ELSE IF c0 = "k" THEN opt("g")
      ELSE <<>>

(***************************************************************************)
(* parse_weight (flatten_workout.py:26-38)                                 *)
(***************************************************************************)
KG_TO_LB == [a |-> 220, b |-> 4622, c |-> 6218, e |-> 10]

\* val * KG_TO_LB, exactly: (a * 10^8 + b * 10^4 + c) / 10^e in limbs of 10^4
TimesKgToLb(val) ==
  Bind(val.m * KG_TO_LB.c, LAMBDA c :
    Bind(val.m * KG_TO_LB.b + c \div 10000, LAMBDA b :
      [a |-> val.m * KG_TO_LB.a + b \div 10000, b |-> b % 10000, c |-> c % 10000,
       e |-> val.e + KG_TO_LB.e]))

\* val as a weight in the same limbs
AsPounds(val) == [a |-> 0, b |-> val.m \div 10000, c |-> val.m % 10000, e |-> val.e]

\* unit.startswith("kg")
StartsWithKg(unit) == Len(unit) >= 2 /\ unit[1] = "k" /\ unit[2] = "g"

NoWeightMatch == [found |-> FALSE, start |-> 0, numEnd |-> 0, unitAt |-> 0, end |-> 0]

\* ([0-9]+(?:\.[0-9]+)?)\s*(lb?s?|po|kg?s?)\b at position i, re.I
WeightMatchAt(s, i) ==
  Bind(MatchNumber(s, i), LAMBDA numEnd :
    IF numEnd = 0 THEN NoWeightMatch
    ELSE Bind(SkipSpaces(s, numEnd), LAMBDA unitAt :
      Bind(UnitEnds(s, unitAt, TRUE), LAMBDA ends :
        Bind({k \in 1..Len(ends) : WordBoundary(s, ends[k])}, LAMBDA good :
          IF good = {} THEN NoWeightMatch
          ELSE [found |-> TRUE, start |-> i, numEnd |-> numEnd, unitAt |-> unitAt,
                end |-> ends[SetMin(good)]]))))

\* re.search(...): the match at the leftmost position that has one
WeightSearch(s) ==
  Bind({i \in 1..Len(s) : WeightMatchAt(s, i).found}, LAMBDA starts :
    IF starts = {} THEN NoWeightMatch ELSE WeightMatchAt(s, SetMin(starts)))

\* lines 33-38 for the match m
WeightFound(txt, m) ==
  Bind(Float(Slice(txt, m.start, m.numEnd)), LAMBDA val :
    Bind(Lower(Slice(txt, m.unitAt, m.end)), LAMBDA unit_raw :
      [lbs    |-> <<IF StartsWithKg(unit_raw) THEN TimesKgToLb(val) ELSE AsPounds(val)>>,
       rest   |-> Strip(From(txt, m.end)),
       unit   |-> unit_raw,
       valErr |-> val = ValueError]))

\* the weight is <<>> (None) or <<w>>; valErr records a failed float()
parse_weight(txt) ==
  IF Strip(txt) = <<>> THEN [lbs |-> None, rest |-> <<>>, unit |-> <<>>, valErr |-> FALSE]
  ELSE Bind(WeightSearch(txt), LAMBDA m :
         IF ~m.found THEN [lbs |-> None, rest |-> txt, unit |-> <<>>, valErr |-> FALSE]
         ELSE WeightFound(txt, m))

(***************************************************************************)
(* parse_side_weight_pairs (flatten_workout.py:113-131)                    *)
(***************************************************************************)
RECURSIVE NatToText(_)
NatToText(n) ==
  IF n < 10 THEN <<<<"0","1","2","3","4","5","6","7","8","9">>[n + 1]>>
  ELSE NatToText(n \div 10) \o NatToText(n % 10)

RECURSIVE Pow10(_)
Pow10(k) == IF k = 0 THEN 1 ELSE 10 * Pow10(k - 1)

RECURSIVE Zeros(_)
Zeros(k) == IF k <= 0 THEN <<>> ELSE <<"0">> \o Zeros(k - 1)

\* the digits of n, at least k of them
PadDigits(n, k) == Bind(NatToText(n), LAMBDA d : Zeros(k - Len(d)) \o d)

\* f"{int(reps) if reps.is_integer() else reps}"
FormatReps(d) ==
  IF d.e = 0 THEN NatToText(d.m)
  ELSE NatToText(d.m \div Pow10(d.e)) \o <<".">> \o PadDigits(d.m % Pow10(d.e), d.e)

NoPair == [found |-> FALSE, start |-> 0, valAt |-> 0, valEnd |-> 0, unitAt |-> 0,
           unitEnd |-> 0, repsAt |-> 0, end |-> 0]

\* the end of ([0-9]+(?:\.[0-9]+)?)\b at position i: the engine first tries
\* the number with its fraction, then the integer part alone; 0 if neither
\* ends at a word boundary
RepsEnd(s, i) ==
  Bind(MatchNumber(s, i), LAMBDA full :
    IF full = 0 THEN 0
    ELSE IF WordBoundary(s, full) THEN full
    ELSE IF WordBoundary(s, SkipDigits(s, i)) THEN SkipDigits(s, i)
    ELSE 0)

\* \s*(lb?s?|po|kg?s?)\s*(number)\b after the value of a pair
PairTail(s, i, valAt, valEnd) ==
  Bind(SkipSpaces(s, valEnd), LAMBDA unitAt :
    Bind(UnitEnds(s, unitAt, FALSE), LAMBDA ends :
      Bind({k \in 1..Len(ends) : RepsEnd(s, SkipSpaces(s, ends[k])) # 0}, LAMBDA good :
        IF good = {} THEN NoPair
        ELSE Bind(ends[SetMin(good)], LAMBDA unitEnd :
          Bind(SkipSpaces(s, unitEnd), LAMBDA repsAt :
            [found |-> TRUE, start |-> i, valAt |-> valAt, valEnd |-> valEnd,
             unitAt |-> unitAt, unitEnd |-> unitEnd, repsAt |-> repsAt,
             end |-> RepsEnd(s, repsAt)])))))

\* \b([RLrl])\s*(number)\s*(lb?s?|po|kg?s?)\s*(number)\b at position i
PairMatchAt(s, i) ==
  IF WordBoundary(s, i) /\ s[i] \in {"R", "L", "r", "l"}
  THEN Bind(SkipSpaces(s, i + 1), LAMBDA valAt :
         Bind(MatchNumber(s, valAt), LAMBDA valEnd :
           IF valEnd = 0 THEN NoPair ELSE PairTail(s, i, valAt, valEnd)))
  ELSE NoPair

\* pat.finditer(txt_norm): the non-overlapping matches from left to right
RECURSIVE PairMatches(_, _)
PairMatches(s, from) ==
  Bind({i \in from..Len(s) : PairMatchAt(s, i).found}, LAMBDA starts :
    IF starts = {} THEN <<>>
    ELSE Bind(PairMatchAt(s, SetMin(starts)), LAMBDA m : <<m>> \o PairMatches(s, m.end)))

\* the pair's value taken as pounds whatever its unit
PairPart_noconv(s, m) ==
  Bind(Float(Slice(s, m.repsAt, m.end)), LAMBDA reps :
    [weight_lbs      |-> <<AsPounds(Float(Slice(s, m.valAt, m.valEnd)))>>,
     reps            |-> reps,
     side            |-> Upper(<<s[m.start]>>),
     setting         |-> None,
     segment_note    |-> None,
     reps_raw_part   |-> FormatReps(reps) \o Upper(<<s[m.start]>>),
     weight_unit_raw |-> Lower(Slice(s, m.unitAt, m.unitEnd)),
     feeling         |-> None])

\* the dict of lines 119-125 for the match m
PairPart(s, m) ==
  Bind(Float(Slice(s, m.repsAt, m.end)), LAMBDA reps :
    Bind(Float(Slice(s, m.valAt, m.valEnd)), LAMBDA val :
      Bind(Lower(Slice(s, m.unitAt, m.unitEnd)), LAMBDA unit :
        [weight_lbs      |-> <<IF StartsWithKg(unit) THEN TimesKgToLb(val) ELSE AsPounds(val)>>,
         reps            |-> reps,
         side            |-> Upper(<<s[m.start]>>),
         setting         |-> None,
         segment_note    |-> None,
         reps_raw_part   |-> FormatReps(reps) \o Upper(<<s[m.start]>>),
         weight_unit_raw |-> unit,
         feeling         |-> None])))

\* the parts and the feeling for the matches ms in txt_norm
PairResult(txt_norm, ms) ==
  [parts   |-> [k \in 1..Len(ms) |-> PairPart(txt_norm, ms[k])],
   feeling |-> Strip(SelectPos(txt_norm,
                               {j \in 1..Len(txt_norm) :
                                  \A k \in 1..Len(ms) : j < ms[k].start \/ ms[k].end <= j},
                               1))]

parse_side_weight_pairs(txt) ==
  Bind(normalize_tokens(txt), LAMBDA txt_norm :
    PairResult(txt_norm, PairMatches(txt_norm, 1)))

(***************************************************************************)
(* expand_group_settings_trailing (flatten_workout.py:40-49)               *)
(***************************************************************************)
\* the number after \s*\+\s* at position p, 0 if none
NextListNumber(s, p) ==
  Bind(SkipSpaces(s, p), LAMBDA plus :
    IF plus <= Len(s) /\ s[plus] = "+" THEN MatchNumber(s, SkipSpaces(s, plus + 1)) ELSE 0)

\* (?:\s*\+\s*number)+ read greedily from position p, which follows a
\* number: [end, n] with n the count of iterations that matched
RECURSIVE NumberListEnd(_, _, _)
NumberListEnd(s, p, n) ==
  Bind(NextListNumber(s, p), LAMBDA nxt :
    IF nxt = 0 THEN [end |-> p, n |-> n] ELSE NumberListEnd(s, nxt, n + 1))

NoGroup == [found |-> FALSE, start |-> 0, close |-> 0, end |-> 0]

\* \s*\)\(([^)]+)\) after the number list that ends at position listEnd
GroupTail(s, i, listEnd) ==
  Bind(SkipSpaces(s, listEnd), LAMBDA close :
    Bind({r \in (close + 2)..Len(s) : s[r] = ")"}, LAMBDA ends :
      IF /\ close + 1 <= Len(s) /\ s[close] = ")" /\ s[close + 1] = "("
         /\ ends # {} /\ SetMin(ends) > close + 2
      THEN [found |-> TRUE, start |-> i, close |-> close, end |-> SetMin(ends) + 1]
      ELSE NoGroup))

\* \((\s*number(?:\s*\+\s*number)+\s*)\)\(([^)]+)\) at position i
GroupMatchAt(s, i) ==
  IF s[i] # "(" THEN NoGroup
  ELSE Bind(MatchNumber(s, SkipSpaces(s, i + 1)), LAMBDA first :
         IF first = 0 THEN NoGroup
         ELSE Bind(NumberListEnd(s, first, 0), LAMBDA lst :
                IF lst.n < 1 THEN NoGroup ELSE GroupTail(s, i, lst.end)))

\* the numbers joined without the setting
GroupJoin_bare(nums, setting) == Join(nums, <<"+">>)

\* n1(setting)+n2(setting)+... for the numbers nums
GroupJoin(nums, setting) ==
  Join([k \in 1..Len(nums) |-> nums[k] \o <<"(">> \o setting \o <<")">>], <<"+">>)

\* the match put back as it was found
GroupRepl_same(s, m) == Slice(s, m.start, m.end)

\* repl(m)
GroupRepl(s, m) ==
  Bind(Slice(s, m.start + 1, m.close), LAMBDA inner :
    GroupJoin(Split(SelectPos(inner, {j \in 1..Len(inner) : ~IsSpace(inner[j])}, 1), "+"),
              Strip(Slice(s, m.close + 2, m.end - 1))))

\* pat.sub(repl, s) from position from on
RECURSIVE GroupSub(_, _)
GroupSub(s, from) ==
  Bind({i \in from..Len(s) : GroupMatchAt(s, i).found}, LAMBDA starts :
    IF starts = {} THEN From(s, from)
    ELSE Bind(GroupMatchAt(s, SetMin(starts)), LAMBDA m :
           Slice(s, from, m.start) \o GroupRepl(s, m) \o GroupSub(s, m.end)))

\* while prev != reps_blob: prev = reps_blob; reps_blob = pat.sub(repl, reps_blob)
RECURSIVE GroupFixpoint(_)
GroupFixpoint(s) ==
  Bind(GroupSub(s, 1), LAMBDA t : IF t = s THEN s ELSE GroupFixpoint(t))

expand_group_settings_trailing(reps_blob) == GroupFixpoint(Strip(reps_blob))

(***************************************************************************)
(* normalize_side_prefix_tokens (flatten_workout.py:51-65)                 *)
(***************************************************************************)
\* (?:\*([0-9]+))?$ at position a: [ok, multAt]; multAt = 0 without a
\* multiplier
MultTail(t, a) ==
  IF a = Len(t) + 1 THEN [ok |-> TRUE, multAt |-> 0]
  ELSE IF t[a] = "*" /\ a + 1 <= Len(t) /\ SkipDigits(t, a + 1) = Len(t) + 1
       THEN [ok |-> TRUE, multAt |-> a + 1]
       ELSE [ok |-> FALSE, multAt |-> 0]

NoPref == [found |-> FALSE, numAt |-> 0, numEnd |-> 0, sufEnd |-> 0, multAt |-> 0]

\* ([A-Za-z]*)(?:\*([0-9]+))?$ after the number of a side-prefixed token
PrefTail(t, numAt, numEnd) ==
  Bind(SkipAlpha(t, numEnd), LAMBDA sufEnd :
    Bind(MultTail(t, sufEnd), LAMBDA tail :
      IF tail.ok
      THEN [found |-> TRUE, numAt |-> numAt, numEnd |-> numEnd, sufEnd |-> sufEnd,
            multAt |-> tail.multAt]
      ELSE NoPref))

\* ^([RLrl])\s*(number)([A-Za-z]*)(?:\*([0-9]+))?$
PrefMatch(t) ==
  IF t # <<>> /\ t[1] \in {"R", "L", "r", "l"}
  THEN Bind(SkipSpaces(t, 2), LAMBDA numAt :
         Bind(MatchNumber(t, numAt), LAMBDA numEnd :
           IF numEnd = 0 THEN NoPref ELSE PrefTail(t, numAt, numEnd)))
  ELSE NoPref

\* lines 57-63 for one token
SidePrefixToken(t) ==
  Bind(PrefMatch(t), LAMBDA m :
    IF ~m.found THEN t
    ELSE Slice(t, m.numAt, m.numEnd) \o Upper(<<t[1]>>) \o Upper(Slice(t, m.numEnd, m.sufEnd))
         \o (IF m.multAt # 0 THEN <<"*">> \o From(t, m.multAt) ELSE <<>>))

\* [t.strip() for t in blob.split("+") if t.strip()]
StrippedTokens(raw) ==
  SelectSeq([k \in 1..Len(raw) |-> Strip(raw[k])], LAMBDA t : t # <<>>)

\* the loop of lines 56-64 and the join
JoinSidePrefixTokens(toks) ==
  Join([k \in 1..Len(toks) |-> SidePrefixToken(toks[k])], <<"+">>)

normalize_side_prefix_tokens(blob) ==
  JoinSidePrefixTokens(StrippedTokens(Split(blob, "+")))

(***************************************************************************)
(* split_reps_segments (flatten_workout.py:67-111)                         *)
(***************************************************************************)
\* no suffix is promoted to the feeling
GLOBAL_TO_FEELING_none == {}

GLOBAL_TO_FEELING == {<<"L", "L", "P">>}

\* the characters of [0-9A-Za-z\.\(\)\+\* ]
IsBlobChar(c) == IsDigit(c) \/ IsAlpha(c) \/ c \in {".", "(", ")", "+", "*", " "}

\* ^([0-9A-Za-z\.\(\)\+\* ]+?)(?:\s+|$)(.*)$ : the lazy group is the shortest
\* non-empty prefix of blob characters that a space or the end follows
BlobSplit(rest) ==
  Bind({k \in 1..Len(rest) :
          /\ \A j \in 1..k : IsBlobChar(rest[j])
          /\ (k = Len(rest) \/ IsSpace(rest[k + 1]))}, LAMBDA cuts :
    IF cuts = {} THEN [reps_blob |-> rest, tail |-> <<>>]
    ELSE [reps_blob |-> Strip(SubSeq(rest, 1, SetMin(cuts))),
          tail      |-> Strip(From(rest, SkipSpaces(rest, SetMin(cuts) + 1)))])

\* ^\(([^)]+)\)\s*(.+)$
LeadMatch(blob) ==
  Bind({r \in 2..Len(blob) : blob[r] = ")"}, LAMBDA ends :
    IF /\ blob # <<>> /\ blob[1] = "(" /\ ends # {}
       /\ SetMin(ends) > 2 /\ SetMin(ends) < Len(blob)
    THEN [found |-> TRUE, setting |-> Strip(Slice(blob, 2, SetMin(ends))),
          remainder |-> Strip(From(blob, SetMin(ends) + 1))]
    ELSE [found |-> FALSE, setting |-> <<>>, remainder |-> blob])

NoSeg == [found |-> FALSE, lead |-> <<>>, num |-> <<>>, trail |-> <<>>, suffix |-> <<>>,
          mult |-> <<>>]

\* \(([^)]+)\) at position i: the position after the match, 0 if none
ParenEnd(s, i) ==
  Bind({r \in (i + 1)..Len(s) : s[r] = ")"}, LAMBDA ends :
    IF i <= Len(s) /\ s[i] = "(" /\ ends # {} /\ SetMin(ends) > i + 1
    THEN SetMin(ends) + 1 ELSE 0)

\* ([A-Za-z]*)(?:\*([0-9]+))?$ from position sufAt on, and the groups
SegTail(seg, leadEnd, numAt, numEnd, trailEnd, sufAt) ==
  Bind(SkipAlpha(seg, sufAt), LAMBDA sufEnd :
    Bind(MultTail(seg, sufEnd), LAMBDA tail :
      IF tail.ok
      THEN [found  |-> TRUE,
            lead   |-> IF leadEnd = 0 THEN <<>> ELSE Slice(seg, 2, leadEnd - 1),
            num    |-> Slice(seg, numAt, numEnd),
            trail  |-> IF trailEnd = 0 THEN <<>> ELSE Slice(seg, numEnd + 1, trailEnd - 1),
            suffix |-> Slice(seg, sufAt, sufEnd),
            mult   |-> IF tail.multAt = 0 THEN <<>> ELSE From(seg, tail.multAt)]
      ELSE NoSeg))

\* (number)(?:\(([^)]+)\))?... from position numAt on
SegNumber(seg, leadEnd, numAt) ==
  Bind(MatchNumber(seg, numAt), LAMBDA numEnd :
    IF numEnd = 0 THEN NoSeg
    ELSE Bind(ParenEnd(seg, numEnd), LAMBDA trailEnd :
           SegTail(seg, leadEnd, numAt, numEnd, trailEnd,
                   IF trailEnd = 0 THEN numEnd ELSE trailEnd)))

\* ^(?:\(([^)]+)\))?(number)(?:\(([^)]+)\))?([A-Za-z]*)(?:\*([0-9]+))?$
SegMatch(seg) ==
  Bind(ParenEnd(seg, 1), LAMBDA leadEnd :
    SegNumber(seg, leadEnd, IF leadEnd = 0 THEN 1 ELSE leadEnd))

RECURSIVE Repeat(_, _)
Repeat(x, n) == IF n <= 0 THEN <<>> ELSE <<x>> \o Repeat(x, n - 1)

\* the trailing setting of a segment before its leading setting
SegFields_trailfirst(seg, reps, set_lead, set_trail, suffix, group_setting) ==
  [reps_raw |-> seg,
   reps     |-> reps,
   side     |-> IF suffix \in {<<"R">>, <<"L">>} THEN suffix ELSE None,
   seg_note |-> IF /\ suffix # <<>>
                   /\ suffix \notin {<<"R">>, <<"L">>}
                   /\ suffix \notin GLOBAL_TO_FEELING
                THEN suffix ELSE None,
   setting  |-> IF set_trail # None THEN set_trail
                ELSE IF set_lead # None THEN set_lead
                ELSE group_setting]

\* lines 101-108 for the settings and the upper-cased suffix of a segment
SegFields(seg, reps, set_lead, set_trail, suffix, group_setting) ==
  [reps_raw |-> seg,
   reps     |-> reps,
   side     |-> IF suffix \in {<<"R">>, <<"L">>} THEN suffix ELSE None,
   seg_note |-> IF /\ suffix # <<>>
                   /\ suffix \notin {<<"R">>, <<"L">>}
                   /\ suffix \notin GLOBAL_TO_FEELING
                THEN suffix ELSE None,
   setting  |-> IF set_lead # None THEN set_lead
                ELSE IF set_trail # None THEN set_trail
                ELSE group_setting]

\* the dict appended mult times for one matching segment (lines 96-110)
SegRecord(seg, m, group_setting) ==
  SegFields(seg, Float(m.num), Strip(m.lead), Strip(m.trail), Upper(m.suffix), group_setting)

\* the multiplier ignored
SegMult_one(m) == 1

\* int(m.group(5)) if m.group(5) else 1
SegMult(m) == IF m.mult = <<>> THEN 1 ELSE Int0(m.mult)

\* what one raw segment adds to segs
SegParts(seg, m, group_setting) ==
  IF seg = <<>> \/ ~m.found THEN <<>>
  ELSE Repeat(SegRecord(seg, m, group_setting), SegMult(m))

\* what one raw segment adds to global_feelings
SegFeeling(seg, m) ==
  IF seg = <<>> THEN <<>>
  ELSE IF ~m.found THEN <<seg>>
  ELSE IF Upper(m.suffix) \in GLOBAL_TO_FEELING THEN <<Upper(m.suffix)>>
  ELSE <<>>

\* a float() or int() raises on the segment
SegRaises(seg, m) ==
  seg # <<>> /\ m.found /\ (Float(m.num) = ValueError \/ SegMult(m) < 0)

\* one pass of the loop of lines 89-110
SegStep(seg, m, group_setting) ==
  [segs     |-> SegParts(seg, m, group_setting),
   feelings |-> SegFeeling(seg, m),
   raises   |-> SegRaises(seg, m)]

\* the loop over reps_blob.split("+") (lines 89-110)
SegLoop(raw, group_setting) ==
  [k \in 1..Len(raw) |->
     Bind(Strip(raw[k]), LAMBDA seg : SegStep(seg, SegMatch(seg), group_setting))]

\* the sequences of xs one after another
RECURSIVE Concat(_)
Concat(xs) == IF xs = <<>> THEN <<>> ELSE Head(xs) \o Concat(Tail(xs))

\* segs and global_feelings after the loop
SegLoopResult(steps, tail) ==
  [segs            |-> Concat([k \in 1..Len(steps) |-> steps[k].segs]),
   global_feelings |-> (IF tail # <<>> THEN <<tail>> ELSE <<>>)
                       \o Concat([k \in 1..Len(steps) |-> steps[k].feelings]),
   raises          |-> \E k \in 1..Len(steps) : steps[k].raises]

\* lines 74-111 for the blob and tail of the split
SplitBlob(mr) ==
  Bind(LeadMatch(expand_group_settings_trailing(mr.reps_blob)), LAMBDA lead :
    SegLoopResult(SegLoop(Split(normalize_side_prefix_tokens(lead.remainder), "+"),
                          IF lead.found THEN lead.setting ELSE None),
                  mr.tail))

split_reps_segments(rest) ==
  Bind(BlobSplit(normalize_tokens(rest)), LAMBDA mr :
    IF ~(\E j \in 1..Len(mr.reps_blob) : IsDigit(mr.reps_blob[j]))
    THEN [segs |-> <<>>,
          global_feelings |-> <<IF mr.tail # <<>> THEN mr.tail ELSE mr.reps_blob>>,
          raises |-> FALSE]
    ELSE SplitBlob(mr))

(***************************************************************************)
(* parse_entry_cell (flatten_workout.py:133-154)                           *)
(***************************************************************************)
\* " | ".join([f for f in (x.strip() for x in global_feelings) if f]) or None
JoinFeelings(global_feelings) ==
  Join(SelectSeq([k \in 1..Len(global_feelings) |-> Strip(global_feelings[k])],
                 LAMBDA f : f # <<>>),
       <<" ", "|", " ">>)

\* a default of 10 reps in place of 12
FallbackPart_ten(w, feeling) ==
  [weight_lbs      |-> w.lbs,
   reps            |-> [m |-> 10, e |-> 0],
   side            |-> None,
   setting         |-> None,
   segment_note    |-> None,
   reps_raw_part   |-> None,
   weight_unit_raw |-> w.unit,
   feeling         |-> feeling]

\* the part synthesized for a weight without reps (lines 150-153)
FallbackPart(w, feeling) ==
  [weight_lbs      |-> w.lbs,
   reps            |-> [m |-> 12, e |-> 0],
   side            |-> None,
   setting         |-> None,
   segment_note    |-> None,
   reps_raw_part   |-> None,
   weight_unit_raw |-> w.unit,
   feeling         |-> feeling]

\* lines 137-141: the parts of the side/weight pairs, with the leftover
PairParts(swr) ==
  [parts  |-> [k \in 1..Len(swr.parts) |-> [swr.parts[k] EXCEPT !.feeling = swr.feeling]],
   raises |-> \E k \in 1..Len(swr.parts) : swr.parts[k].reps = ValueError]

\* the fallback part synthesized also when no weight was found
SegmentParts_always(w, split, feeling) ==
  IF split.raises THEN [parts |-> <<>>, raises |-> TRUE]
  ELSE IF split.segs # <<>>
  THEN [parts  |-> [k \in 1..Len(split.segs) |->
                      [weight_lbs      |-> w.lbs,
                       reps            |-> split.segs[k].reps,
                       side            |-> split.segs[k].side,
                       setting         |-> split.segs[k].setting,
                       segment_note    |-> split.segs[k].seg_note,
                       reps_raw_part   |-> split.segs[k].reps_raw,
                       weight_unit_raw |-> w.unit,
                       feeling         |-> feeling]],
        raises |-> FALSE]
  ELSE [parts |-> <<FallbackPart(w, feeling)>>, raises |-> FALSE]

\* lines 144-154: the parts of the segments, or the fallback
SegmentParts(w, split, feeling) ==
  IF split.raises THEN [parts |-> <<>>, raises |-> TRUE]
  ELSE IF split.segs # <<>>
  THEN [parts  |-> [k \in 1..Len(split.segs) |->
                      [weight_lbs      |-> w.lbs,
                       reps            |-> split.segs[k].reps,
                       side            |-> split.segs[k].side,
                       setting         |-> split.segs[k].setting,
                       segment_note    |-> split.segs[k].seg_note,
                       reps_raw_part   |-> split.segs[k].reps_raw,
                       weight_unit_raw |-> w.unit,
                       feeling         |-> feeling]],
        raises |-> FALSE]
  ELSE IF w.lbs # None
  THEN [parts |-> <<FallbackPart(w, feeling)>>, raises |-> FALSE]
  ELSE [parts |-> <<>>, raises |-> FALSE]

\* lines 135-154 for the weight w
EntryParts(w, rest) ==
  Bind(parse_side_weight_pairs(rest), LAMBDA swr :
    IF swr.parts # <<>> THEN PairParts(swr)
    ELSE Bind(split_reps_segments(rest), LAMBDA split :
           SegmentParts(w, split, JoinFeelings(split.global_feelings))))

\* [parts, raises]: the list returned, or raises = TRUE when an exception
\* leaves the function
parse_entry_cell(txt) ==
  Bind(parse_weight(txt), LAMBDA w :
    IF w.valErr THEN [parts |-> <<>>, raises |-> TRUE]
    ELSE EntryParts(w, normalize_tokens(w.rest)))

(***************************************************************************)
(* flatten_one, the body of the loop over the entries (lines 164-183)      *)
(***************************************************************************)
\* the decimal digits of a weight, most significant first
WeightDigits(w) ==
  IF w.a > 0 THEN NatToText(w.a) \o PadDigits(w.b, 4) \o PadDigits(w.c, 4)
  ELSE IF w.b > 0 THEN NatToText(w.b) \o PadDigits(w.c, 4)
  ELSE NatToText(w.c)

\* round(w, 2) in hundredths of a pound, ties to even
Round2(w) ==
  IF w.e <= 2 THEN (w.b * 10000 + w.c) * Pow10(2 - w.e)
  ELSE LET ds    == WeightDigits(w)
           drop  == w.e - 2
           keepN == Len(ds) - drop
           q     == IF keepN <= 0 THEN 0 ELSE DigitsValue(SubSeq(ds, 1, keepN))
           cut   == IF keepN < 0 THEN Zeros(-keepN) \o ds ELSE From(ds, keepN + 1)
           first == DigitVal(cut[1])
           more  == \E j \in 2..Len(cut) : cut[j] # "0"
           up    == first > 5 \/ (first = 5 /\ (more \/ q % 2 = 1))
       IN  IF up THEN q + 1 ELSE q

\* the dicts appended to rows for one entry r of long_df; pos is the index of
\* the sheet row the entry was read from, kept to state ordering properties
MaterializeRows(r, src_name, ps) ==
  [idx \in 1..Len(ps) |->
     [date            |-> r.date,
      exercise        |-> r.exercise,
      weight_lbs      |-> IF ps[idx].weight_lbs # None
                          THEN <<Round2(ps[idx].weight_lbs[1])>> ELSE None,
      reps            |-> ps[idx].reps,
      side            |-> ps[idx].side,
      setting         |-> ps[idx].setting,
      segment_note    |-> ps[idx].segment_note,
      feeling         |-> ps[idx].feeling,
      reps_raw_part   |-> ps[idx].reps_raw_part,
      raw_cell        |-> r.entry,
      weight_unit_raw |-> ps[idx].weight_unit_raw,
      set_row         |-> r.set_row,
      part_idx        |-> idx,
      source_file     |-> src_name,
      pos             |-> r.pos]]

(***************************************************************************)
(* The cells the parser is run on.  A shape is a family of cells and the   *)
(* tokens the cell is written from; cell is the text a shape renders to.   *)
(***************************************************************************)
MaxTokens == 3
MaxPairs == 2
MaxSegs == 3
MaxWords == 2
MaxMult == 2
MaxMultSegs == 2
MaxSetSegs == 2

SeqsUpTo(S, n) == UNION {[1..k -> S] : k \in 0..n}

SeqsFromTo(S, lo, n) == UNION {[1..k -> S] : k \in lo..n}

GenericTokens == {<<" ">>, <<"+">>, <<"*">>, <<"(">>, <<")">>, <<"8">>, <<"1",".","5">>, <<".">>, <<"l","b">>, <<"k","g">>, <<"R">>, <<"x">>, <<"-">>}

PairSides == {<<"L">>, <<"R">>}
PairVals == {<<"1","0">>, <<"7",".","5">>}
PairUnits == {<<"k","g","s">>, <<"l","b">>}
PairReps == {<<"1","3">>, <<"1","5">>}

GroupVals == {<<"5","0">>}
GroupUnits == {<<"l","b">>, <<"k","g">>}
GroupSettings == {<<"3">>, <<"h","i">>}
GroupReps == {<<"6">>, <<"3">>}

SideLetters == {<<"R">>, <<"L">>}
SideReps == {<<"1","2">>, <<"9">>}
SideWeights == {<<>>, <<"5","0","l","b">>}

FeelVals == {<<"1","3","5">>, <<"7",".","5">>}
FeelUnits == {<<"l","b">>, <<"k","g","s">>, <<"p","o">>, <<"K","G">>}
FeelWords == {<<"f","e","l","t">>, <<"s","t","r","o","n","g">>, <<"o","k">>}

MultWeights == {<<>>, <<"5","0","l","b">>, <<"2","0","k","g">>}
MultReps == {<<"8">>, <<"5">>}
MultSuffixes == {<<>>, <<"R">>, <<"x">>}
MultCounts == {<<>>} \cup {NatToText(n) : n \in 1..MaxMult}

TrailWeights == {<<>>, <<"5","0","l","b">>}
SetGroups == {<<>>, <<"3">>}
SetLeads == {<<>>, <<"l","o">>}
SetTrails == {<<>>, <<"h","i">>}
TrailSettings == {<<"3">>, <<"h","i">>, <<"l","v","l","-","3">>}

LlpReps == {<<"8">>}
LlpCounts == {<<>>, <<"2">>}
LlpSuffixes == {<<"L","L","P">>, <<"l","l","p">>, <<"L","l","p">>, <<"x">>}

Sp == <<" ">>

GenericShapes == {[kind |-> "generic", toks |-> ts] : ts \in SeqsUpTo(GenericTokens, MaxTokens)}

\* one pair is side, value, unit, reps
PairTuples == {<<sd, v, u, r>> : sd \in PairSides, v \in PairVals, u \in PairUnits, r \in PairReps}

PairShapes == {[kind |-> "pairs", toks |-> Concat(ps)] : ps \in SeqsFromTo(PairTuples, 1, MaxPairs)}

\* weight value, weight unit, setting, n1 .. nk
GroupShapes ==
  {[kind |-> "group", toks |-> <<v, u, st>> \o ns] :
     v \in GroupVals, u \in GroupUnits, st \in GroupSettings,
     ns \in SeqsFromTo(GroupReps, 1, MaxSegs)}

\* weight or nothing, side, n, and the side written before (pre) or after (post)
SideShapes ==
  {[kind |-> "side", toks |-> <<w, sd, n, f>>] :
     w \in SideWeights, sd \in SideLetters, n \in SideReps, f \in {<<"p","r","e">>, <<"p","o","s","t">>}}

\* weight value, weight unit, word1 .. wordk
FeelShapes ==
  {[kind |-> "feel", toks |-> <<v, u>> \o ws] :
     v \in FeelVals, u \in FeelUnits, ws \in SeqsUpTo(FeelWords, MaxWords)}

\* one segment is n, multiplier (or nothing), suffix (or nothing)
MultTuples == {<<n, c, sf>> : n \in MultReps, c \in MultCounts, sf \in MultSuffixes}

\* weight or nothing, then the segments
MultShapes ==
  {[kind |-> "mult", toks |-> <<w>> \o Concat(sg)] :
     w \in MultWeights, sg \in SeqsFromTo(MultTuples, 1, MaxMultSegs)}

\* segments as in MultTuples, with the suffix LLP in several letter cases
LlpTuples == {<<n, c, sf>> : n \in LlpReps, c \in LlpCounts, sf \in LlpSuffixes}

\* weight or nothing, then the segments
LlpShapes ==
  {[kind |-> "llp", toks |-> <<w>> \o Concat(sg)] :
     w \in MultWeights, sg \in SeqsFromTo(LlpTuples, 1, MaxMultSegs)}

\* weight or nothing, setting, n1 .. nk with k >= 2
TrailShapes ==
  {[kind |-> "trail", toks |-> <<w, st>> \o ns] :
     w \in TrailWeights, st \in TrailSettings, ns \in SeqsFromTo(GroupReps, 2, MaxSegs)}

\* one segment is its leading setting (or nothing), n, its trailing setting
\* (or nothing)
SetTuples == {<<ld, n, tr>> : ld \in SetLeads, n \in GroupReps, tr \in SetTrails}

\* weight or nothing, the group setting or nothing, then the segments; a
\* setting in front of the whole rep text is the group setting
SetShapes ==
  {sh \in {[kind |-> "set", toks |-> <<w, g>> \o Concat(sg)] :
              w \in TrailWeights, g \in SetGroups,
              sg \in SeqsFromTo(SetTuples, 1, MaxSetSegs)} :
     sh.toks[2] = <<>> => sh.toks[3] = <<>>}

SideNoteSuffixes == {<<"H","A">>, <<"x">>}
SideNoteCounts == {<<>>, <<"2">>}

\* weight or nothing, side, n, suffix, multiplier or nothing: the side is
\* written before the number, the suffix after it
SideNoteShapes ==
  {[kind |-> "sidenote", toks |-> <<w, sd, n, sf, c>>] :
     w \in SideWeights, sd \in SideLetters, n \in SideReps,
     sf \in SideNoteSuffixes, c \in SideNoteCounts}

Shapes == GenericShapes \cup PairShapes \cup GroupShapes \cup SideShapes
          \cup FeelShapes \cup MultShapes \cup LlpShapes \cup TrailShapes
          \cup SetShapes \cup SideNoteShapes

\* the k-th group of n tokens of ts, after the first skip tokens
Group(ts, skip, n, k) == SubSeq(ts, skip + n * (k - 1) + 1, skip + n * k)

GroupCount(ts, skip, n) == (Len(ts) - skip) \div n

WithWeight(w, txt) == IF w = <<>> THEN txt ELSE w \o Sp \o txt

\* (s) or nothing
InParens(st) == IF st = <<>> THEN <<>> ELSE <<"(">> \o st \o <<")">>

RenderSeg(g) == g[1] \o g[3] \o (IF g[2] = <<>> THEN <<>> ELSE <<"*">> \o g[2])

Render(sh) ==
  LET ts == sh.toks
  IN  CASE sh.kind = "generic" -> Concat(ts)
        [] sh.kind = "pairs" ->
             Join([k \in 1..GroupCount(ts, 0, 4) |->
                     LET g == Group(ts, 0, 4, k) IN g[1] \o g[2] \o g[3] \o Sp \o g[4]], Sp)
        [] sh.kind = "group" ->
             ts[1] \o ts[2] \o Sp \o <<"(">> \o ts[3] \o <<")">> \o Sp
             \o Join(SubSeq(ts, 4, Len(ts)), <<"+">>)
        [] sh.kind = "side" ->
             WithWeight(ts[1], IF ts[4] = <<"p","r","e">> THEN ts[2] \o ts[3] ELSE ts[3] \o ts[2])
        [] sh.kind = "sidenote" ->
             WithWeight(ts[1], ts[2] \o ts[3] \o ts[4]
                               \o (IF ts[5] = <<>> THEN <<>> ELSE <<"*">> \o ts[5]))
        [] sh.kind = "feel" ->
             ts[1] \o ts[2] \o (IF Len(ts) = 2 THEN <<>> ELSE Sp \o Join(SubSeq(ts, 3, Len(ts)), Sp))
        [] sh.kind = "trail" ->
             WithWeight(ts[1], <<"(">> \o Join(SubSeq(ts, 3, Len(ts)), <<"+">>) \o <<")">>
                               \o <<"(">> \o ts[2] \o <<")">>)
        [] sh.kind = "set" ->
             WithWeight(ts[1], InParens(ts[2]) \o
                Join([k \in 1..GroupCount(ts, 2, 3) |->
                        Bind(Group(ts, 2, 3, k), LAMBDA g :
                           InParens(g[1]) \o g[2] \o InParens(g[3]))], <<"+">>))
        [] sh.kind \in {"mult", "llp"} ->
             WithWeight(ts[1], Join([k \in 1..GroupCount(ts, 1, 3) |->
                                       RenderSeg(Group(ts, 1, 3, k))], <<"+">>))

(***************************************************************************)
(* Specification of the parser run on one entry                            *)
(***************************************************************************)
NoWeight == [lbs |-> None, rest |-> <<>>, unit |-> <<>>, valErr |-> FALSE]

\* no request has been served
NoCall == [op |-> "none"]

\* the backend has not been constructed
ApiIdle ==
  /\ values = <<>> /\ current_session_info = None
  /\ call = NoCall /\ returned = "none"

\* no call of WorkoutDB, an empty result
NoDbCall == [op |-> "none", where |-> <<>>]

NoDbResult == [count |-> 0, entries |-> <<>>]

\* no WorkoutDB has been constructed
DbIdle ==
  /\ stored = <<>> /\ cache = None /\ cache_fresh = FALSE
  /\ dbcall = NoDbCall /\ dbret = NoDbResult

\* expand_group_settings_trailing has not been called
ExpandIdle ==
  /\ expand_arg = <<>> /\ expand_blob = <<>> /\ prev = None /\ epc = "idle"

\* a file that has not been written
NoFile == [written |-> FALSE, header |-> <<>>, rows |-> <<>>]

\* main has not been started
MainIdle ==
  /\ paths = <<>> /\ checked = 0 /\ all_parts = <<>>
  /\ full_csv = NoFile /\ clean_csv = NoFile /\ status = -1 /\ mpc = "idle"

\* nothing has been normalized
NormIdle == given = <<>> /\ once = <<>> /\ twice = <<>> /\ npc = "idle"

Init ==
  /\ shape \in Shapes
  /\ cell = Render(shape)
  /\ pc = "ready"
  /\ pw = NoWeight
  /\ parts = <<>>
  /\ rows = <<>>
  /\ exc = ""
  /\ columns = <<>>
  /\ sheet = <<>>
  /\ frame = <<>>
  /\ out = <<>>
  /\ fpc = "idle"
  /\ NormIdle
  /\ MainIdle
  /\ ApiIdle
  /\ DbIdle
  /\ ExpandIdle

\* one pass of the loop of flatten_one: parse the entry, append its rows;
\* an exception leaves the loop with no row appended
FlattenEntry ==
  /\ pc = "ready"
  /\ LET r == parse_entry_cell(cell)
     IN  /\ pw' = parse_weight(cell)
         /\ IF r.raises
            THEN /\ pc' = "raised"
                 /\ exc' = "ValueError"
                 /\ UNCHANGED <<parts, rows>>
            ELSE /\ pc' = "parsed"
                 /\ parts' = r.parts
                 /\ rows' = MaterializeRows([date |-> 1, exercise |-> "A", entry |-> cell,
                                                  set_row |-> 1, pos |-> 1], "a.csv", r.parts)
                 /\ UNCHANGED exc
  /\ UNCHANGED <<shape, cell, sheetVars, normVars, mainVars, apiVars, dbVars, expandVars>>

Next == FlattenEntry

Spec == Init /\ [][Next]_vars

(***************************************************************************)
(* read_sheet (flatten_workout.py:16-24).  A sheet is the sequence of its  *)
(* rows; a row has the exercise cell ("" when blank) and one entry per     *)
(* date column.  The date of a column is its index.                        *)
(***************************************************************************)
\* .ffill(): a blank exercise takes the nearest non-blank one above it
RECURSIVE FilledExercise(_, _)
FilledExercise(sh, i) ==
  IF i = 0 THEN ""
  ELSE IF sh[i].exercise # "" THEN sh[i].exercise
  ELSE FilledExercise(sh, i - 1)

\* groupby(block_id).cumcount() + 1 over the forward-filled exercises ex
RECURSIVE SetRow(_, _)
SetRow(ex, i) ==
  IF i = 1 \/ ex[i] # ex[i - 1] THEN 1 ELSE SetRow(ex, i - 1) + 1

\* the exercise column left as it was read, blanks and all
read_sheet_nofill(sh) ==
  LET ex == [i \in 1..Len(sh) |-> sh[i].exercise]
  IN  [i \in 1..Len(sh) |->
         [exercise |-> ex[i], set_row |-> SetRow(ex, i), entries |-> sh[i].entries]]

read_sheet(sh) ==
  LET ex == [i \in 1..Len(sh) |-> FilledExercise(sh, i)]
  IN  [i \in 1..Len(sh) |->
         [exercise |-> ex[i], set_row |-> SetRow(ex, i), entries |-> sh[i].entries]]

(***************************************************************************)
(* flatten_one (flatten_workout.py:156-189)                                *)
(***************************************************************************)
\* str(entry): an empty field is read as NaN, whose text is "nan"
EntryText(e) == IF e = <<>> THEN <<"n", "a", "n">> ELSE e

\* df.melt(...): one entry per date column and row, column by column;
\* whitespace-only entries are dropped (line 160)
Melt(df, ncols) ==
  LET all == [k \in 1..(ncols * Len(df)) |->
                LET col == ((k - 1) \div Len(df)) + 1
                    row == ((k - 1) % Len(df)) + 1
                IN  [date |-> col, exercise |-> df[row].exercise,
                     set_row |-> df[row].set_row, pos |-> row,
                     entry |-> EntryText(df[row].entries[col])]]
  IN  SelectSeq(all, LAMBDA r : Strip(r.entry) # <<>>)

\* the rows list built by the loop of lines 164-183
RECURSIVE EntryRows(_, _)
EntryRows(long_df, src_name) ==
  IF long_df = <<>> THEN <<>>
  ELSE MaterializeRows(Head(long_df), src_name, parse_entry_cell(Head(long_df).entry).parts)
       \o EntryRows(Tail(long_df), src_name)

\* the order of exercise names as Python compares strings
ExerciseRank(e) == CASE e = "A" -> 1 [] e = "B" -> 2 [] OTHER -> 0

\* row x sorts before row y under ["exercise", "date", "_set_row", "_part_idx"]
SortsBefore(x, y) ==
  LET kx == <<ExerciseRank(x.exercise), x.date, x.set_row, x.part_idx>>
      ky == <<ExerciseRank(y.exercise), y.date, y.set_row, y.part_idx>>
      diff == {j \in 1..4 : kx[j] # ky[j]}
  IN  diff # {} /\ kx[SetMin(diff)] < ky[SetMin(diff)]

\* sort_values on several columns is a stable sort: equal keys keep their order
StableSort(xs) ==
  LET rank(i) == Cardinality({j \in 1..Len(xs) :
                    SortsBefore(xs[j], xs[i]) \/ (~SortsBefore(xs[i], xs[j]) /\ j < i)}) + 1
  IN  [p \in 1..Len(xs) |-> xs[CHOOSE i \in 1..Len(xs) : rank(i) = p]]

\* groupby(["date", "exercise"]).cumcount() + 1
WithSetNumber(xs) ==
  [i \in 1..Len(xs) |->
     [set_number |-> Cardinality({j \in 1..(i - 1) :
                        xs[j].date = xs[i].date /\ xs[j].exercise = xs[i].exercise}) + 1]
     @@ xs[i]]

flatten_one(df, ncols, src_name) ==
  WithSetNumber(StableSort(EntryRows(Melt(df, ncols), src_name)))

(***************************************************************************)
(* Specification of one sheet read and flattened                           *)
(***************************************************************************)
MaxRows == 3
MaxEntries == 3

\* the headers of the date columns
DateCols == <<"2024.01.01", "2024.01.02">>

NumDateCols == Len(DateCols)

SheetExercises == {"A", "B"}

SheetEntries == {<<"8">>, <<"5","0","l","b"," ","9","+","5">>}

\* the sheets of n rows: the first row names an exercise, at most MaxEntries
\* entries are filled in
SheetsOf(n) ==
  LET positions == (1..n) \X (1..NumDateCols)
      fillings  == UNION {[P -> SheetEntries] :
                            P \in {Q \in SUBSET positions : Cardinality(Q) <= MaxEntries}}
      names     == {ex \in [1..n -> SheetExercises \cup {""}] : ex[1] # ""}
  IN  {[i \in 1..n |->
          [exercise |-> ex[i],
           entries  |-> [c \in 1..NumDateCols |->
                           IF <<i, c>> \in DOMAIN f THEN f[<<i, c>>] ELSE <<>>]]] :
         ex \in names, f \in fillings}

Sheets == UNION {SheetsOf(n) : n \in 1..MaxRows}

NoShape == [kind |-> "none", toks |-> <<>>]

\* the header of a sheet: the exercise column, then the date columns
Header == <<"Exercise">> \o DateCols

\* the header pd.read_csv gives a file whose first header cell is blank
UnnamedHeader == <<"Unnamed: 0">> \o DateCols

\* the files read: a sheet under its header, a one-row sheet under a header
\* with a blank first cell, and the empty file
CsvFiles ==
  {<<Header, sh>> : sh \in Sheets}
    \cup {<<UnnamedHeader, sh>> : sh \in SheetsOf(1)}
    \cup {<<<<>>, <<>>>>}

\* pd.read_csv: a file with no columns raises EmptyDataError
read_csv(cols) == IF cols = <<>> THEN "EmptyDataError" ELSE ""

InitFlatten ==
  /\ \E file \in CsvFiles : columns = file[1] /\ sheet = file[2]
  /\ fpc = "start"
  /\ frame = <<>>
  /\ out = <<>>
  /\ shape = NoShape
  /\ cell = <<>>
  /\ pc = "idle"
  /\ pw = NoWeight
  /\ parts = <<>>
  /\ rows = <<>>
  /\ exc = ""
  /\ NormIdle
  /\ MainIdle
  /\ ApiIdle
  /\ DbIdle
  /\ ExpandIdle

ReadSheet ==
  /\ fpc = "start"
  /\ IF read_csv(columns) # ""
       THEN /\ exc' = read_csv(columns)
            /\ fpc' = "raised"
            /\ UNCHANGED frame
       ELSE /\ frame' = read_sheet(sheet)
            /\ fpc' = "read"
            /\ UNCHANGED exc
  /\ UNCHANGED <<shape, cell, pc, pw, parts, rows, columns, sheet, out,
                 normVars, mainVars, apiVars, dbVars, expandVars>>

FlattenOne ==
  /\ fpc = "read"
  /\ out' = flatten_one(frame, NumDateCols, "a.csv")
  /\ fpc' = "flattened"
  /\ UNCHANGED <<parserVars, columns, sheet, frame, normVars, mainVars, apiVars, dbVars,
                 expandVars>>

NextFlatten == ReadSheet \/ FlattenOne

SpecFlatten == InitFlatten /\ [][NextFlatten]_vars

(***************************************************************************)
(* Specification of normalize_tokens applied to a text and to its result   *)
(***************************************************************************)
MaxNormLen == 5

NormChars == {" ", "\t", "+", "*", "a"}

\* no entry is being parsed
ParserIdle ==
  /\ shape = NoShape /\ cell = <<>> /\ pc = "idle" /\ pw = NoWeight
  /\ parts = <<>> /\ rows = <<>> /\ exc = ""

\* no sheet is being flattened
SheetIdle ==
  columns = <<>> /\ sheet = <<>> /\ frame = <<>> /\ out = <<>> /\ fpc = "idle"

InitNormalize ==
  /\ given \in SeqsUpTo(NormChars, MaxNormLen)
  /\ once = <<>>
  /\ twice = <<>>
  /\ npc = "given"
  /\ ParserIdle
  /\ SheetIdle
  /\ MainIdle
  /\ ApiIdle
  /\ DbIdle
  /\ ExpandIdle

\* s = normalize_tokens(s) on the given text
Normalize ==
  /\ npc = "given"
  /\ once' = normalize_tokens(given)
  /\ npc' = "once"
  /\ UNCHANGED <<given, twice, parserVars, sheetVars, mainVars, apiVars, dbVars, expandVars>>

\* the same call on the text it returned
NormalizeAgain ==
  /\ npc = "once"
  /\ twice' = normalize_tokens(once)
  /\ npc' = "twice"
  /\ UNCHANGED <<given, once, parserVars, sheetVars, mainVars, apiVars, dbVars, expandVars>>

NextNormalize == Normalize \/ NormalizeAgain

SpecNormalize == InitNormalize /\ [][NextNormalize]_vars

(***************************************************************************)
(* flatten_many and main (flatten_workout.py:191-219).  A path has the     *)
(* name of its file, whether the file exists, and the sheet in the file.   *)
(* The columns _set_row and _part_idx are the fields set_row and part_idx. *)
(***************************************************************************)
full_cols ==
  <<"date", "exercise", "set_number", "weight_lbs", "reps", "side", "setting",
    "segment_note", "feeling", "reps_raw_part", "raw_cell", "weight_unit_raw",
    "set_row", "part_idx", "source_file">>

\* the clean view with weight_unit_raw kept
clean_cols_unit ==
  <<"date", "exercise", "set_number", "weight_lbs", "reps", "side", "setting",
    "segment_note", "feeling", "reps_raw_part", "raw_cell", "weight_unit_raw",
    "source_file">>

clean_cols ==
  <<"date", "exercise", "set_number", "weight_lbs", "reps", "side", "setting",
    "segment_note", "feeling", "reps_raw_part", "raw_cell", "source_file">>

\* the order of file names as Python compares strings
FileRank(f) == CASE f = "a.csv" -> 1 [] f = "b.csv" -> 2 [] OTHER -> 0

\* row x sorts before row y under ["date", "exercise", "set_number", "source_file"]
WritesBefore(x, y) ==
  Bind(<<x.date - y.date, ExerciseRank(x.exercise) - ExerciseRank(y.exercise),
         x.set_number - y.set_number, FileRank(x.source_file) - FileRank(y.source_file)>>,
       LAMBDA d : \E j \in 1..4 : d[j] < 0 /\ \A k \in 1..(j - 1) : d[k] = 0)

\* the position of row i of xs after the stable sort of line 201
WriteRank(xs, i) ==
  Cardinality({j \in 1..Len(xs) :
                 WritesBefore(xs[j], xs[i]) \/ (~WritesBefore(xs[i], xs[j]) /\ j < i)}) + 1

\* out.sort_values([...]).reset_index(drop=True)
SortForWrite(xs) ==
  [p \in 1..Len(xs) |-> xs[CHOOSE i \in 1..Len(xs) : WriteRank(xs, i) = p]]

\* out[cols].to_csv(..., index=False)
ToCsv(xs, cols) ==
  [written |-> TRUE, header |-> cols,
   rows |-> [i \in 1..Len(xs) |-> [k \in 1..Len(cols) |-> xs[i][cols[k]]]]]

\* write_text("")
EmptyCsv == [written |-> TRUE, header |-> <<>>, rows |-> <<>>]

(***************************************************************************)
(* Specification of main: the paths checked, the files flattened one by    *)
(* one, the two views written                                              *)
(***************************************************************************)
MaxFiles == 2

FileNames == {"a.csv", "b.csv"}

\* one-row sheets with an entry or a blank in each date column
MainSheets ==
  {<<[exercise |-> ex, entries |-> <<e1, e2>>]>> :
     ex \in SheetExercises,
     e1 \in {<<>>, <<"5","0","l","b"," ","9","+","5">>},
     e2 \in {<<>>, <<"8">>}}

MainPaths ==
  {[name |-> n, exists |-> TRUE, sheet |-> sh] : n \in FileNames, sh \in MainSheets}
  \cup {[name |-> n, exists |-> FALSE, sheet |-> <<>>] : n \in FileNames}

InitMain ==
  /\ paths \in SeqsFromTo(MainPaths, 1, MaxFiles)
  /\ checked = 0
  /\ all_parts = <<>>
  /\ full_csv = NoFile
  /\ clean_csv = NoFile
  /\ status = -1
  /\ mpc = "check"
  /\ ParserIdle
  /\ SheetIdle
  /\ NormIdle
  /\ ApiIdle
  /\ DbIdle
  /\ ExpandIdle

\* a missing path passes the check
CheckPath_skip ==
  /\ mpc = "check"
  /\ checked' = checked + 1
  /\ mpc' = IF checked + 1 = Len(paths) THEN "flatten" ELSE "check"
  /\ UNCHANGED status
  /\ UNCHANGED <<paths, all_parts, full_csv, clean_csv, parserVars, sheetVars, normVars, apiVars, dbVars, expandVars>>

\* one pass of the loop of lines 215-217: sys.exit(1) on a missing path
CheckPath ==
  /\ mpc = "check"
  /\ IF paths[checked + 1].exists
     THEN /\ checked' = checked + 1
          /\ mpc' = IF checked + 1 = Len(paths) THEN "flatten" ELSE "check"
          /\ UNCHANGED status
     ELSE /\ status' = 1
          /\ mpc' = "exited"
          /\ UNCHANGED checked
  /\ UNCHANGED <<paths, all_parts, full_csv, clean_csv, parserVars, sheetVars, normVars, apiVars, dbVars, expandVars>>

\* one pass of the loop of lines 193-195
FlattenNextFile ==
  /\ mpc = "flatten"
  /\ Len(all_parts) < Len(paths)
  /\ paths[Len(all_parts) + 1].exists
  /\ all_parts' = Append(all_parts,
                          Bind(paths[Len(all_parts) + 1], LAMBDA path :
                            flatten_one(read_sheet(path.sheet), NumDateCols, path.name)))
  /\ UNCHANGED <<paths, checked, full_csv, clean_csv, status, mpc>>
  /\ UNCHANGED <<parserVars, sheetVars, normVars, apiVars, dbVars, expandVars>>

\* the two files for the concatenated rows (lines 196-207)
WrittenViews(rows_all) ==
  IF rows_all = <<>>
  THEN [full |-> EmptyCsv, clean |-> EmptyCsv]
  ELSE Bind(SortForWrite(rows_all), LAMBDA sorted :
         [full |-> ToCsv(sorted, full_cols), clean |-> ToCsv(sorted, clean_cols)])

\* lines 196-207, and main returns
WriteViews ==
  /\ mpc = "flatten"
  /\ Len(all_parts) = Len(paths)
  /\ Bind(WrittenViews(Concat(all_parts)), LAMBDA views :
        full_csv' = views.full /\ clean_csv' = views.clean)
  /\ status' = 0
  /\ mpc' = "exited"
  /\ UNCHANGED <<paths, checked, all_parts, parserVars, sheetVars, normVars, apiVars, dbVars, expandVars>>

NextMain == CheckPath \/ FlattenNextFile \/ WriteViews

SpecMain == InitMain /\ [][NextMain]_vars

(***************************************************************************)
(* Session management of WorkoutSheetsAPI (backend_api.py:484-780).        *)
(* values is the data of the raw sheet below the header row; a row has the *)
(* columns the session methods read or write.  The dict of a session has   *)
(* its exercises as one list of rows, sets: the list of an exercise is the *)
(* rows of sets with that exercise, empty for any other exercise.          *)
(***************************************************************************)
get_workout_templates ==
  [upper1 |-> <<"Pec dec fly", "DB Incline bench press", "DB lateral raises",
                "Lat pulldown (Moderate load)", "Flat bar cable curls",
                "Tricep pushdowns">>,
   upper2 |-> <<"Hamstring curls lying", "Hip Thrust machine", "DB Deadlifts",
                "Walking lunges bodyweight", "Calf raises seated", "Reverse Crunches">>,
   lower1 |-> <<"Flat bench press DB", "DB Seated shoulder press", "Pronated rows seated",
                "Rope pullovers", "Bicep hammer curls DB", "Tricep pushdowns">>,
   lower2 |-> <<"Adductors Machine", "Abductors Machine", "Leg extensions",
                "Lying leg curls", "Walking lunges", "Reverse crunches">>]

\* self.get_workout_templates().get(template, [])
TemplateExercises(template) ==
  IF template \in DOMAIN get_workout_templates THEN get_workout_templates[template]
  ELSE <<>>

\* the rows with session_status "active" and an exercise
ActiveRows(vals) ==
  SelectSeq(vals, LAMBDA row : row.session_status = "active" /\ row.exercise # "")

\* lines 517-555: the tracked session with the active rows of its date
TrackedSession(vals, info) ==
  <<[date     |-> info.date,
     template |-> info.template,
     sets     |-> SelectSeq(ActiveRows(vals), LAMBDA row : row.date = info.date)]>>

\* the active rows of the sheet are not looked at
SheetSession_none(act) == None

\* lines 557-590: the session of the active rows of the sheet, if any
SheetSession(act) ==
  IF act = <<>> THEN None
  ELSE <<[date |-> act[Len(act)].date, template |-> act[Len(act)].template, sets |-> act]>>

\* None or <<session>>
get_active_session(vals, tracked) ==
  IF tracked # None THEN TrackedSession(vals, tracked[1])
  ELSE SheetSession(ActiveRows(vals))

\* lines 515 and 596-598: an exception of the Sheets read is logged and None
\* is returned
ReadActiveSession(vals, tracked, read_ok) ==
  IF read_ok THEN get_active_session(vals, tracked) ELSE None

\* lines 607-619: the first set of the exercise with the set number, if any
ExistingSet(session, exercise, set_number) ==
  SelectSeq(session.sets, LAMBDA row : row.exercise = exercise /\ row.set_number = set_number)

\* the cell keeps its value when the argument is None
Updated(old, arg) == IF arg = None THEN old ELSE arg[1]

\* any row of the date, exercise and set number, whatever its status
MatchingRows(vals, set_data) ==
  {i \in 1..Len(vals) : /\ vals[i].date = set_data.date
                        /\ vals[i].exercise = set_data.exercise
                        /\ vals[i].set_number = set_data.set_number}

\* the batch update of lines 646-680 on row i
UpdateRow(vals, i, weight, reps, notes) ==
  [vals EXCEPT ![i] = [@ EXCEPT !.weight_lbs = Updated(@, weight),
                                !.reps = Updated(@, reps),
                                !.segment_note = Updated(@, notes)]]

\* _update_existing_set: the first row that matches is written
update_existing_set(vals, set_data, weight, reps, notes) ==
  Bind(MatchingRows(vals, set_data), LAMBDA found :
    IF found = {} THEN [values |-> vals, ret |-> FALSE]
    ELSE [values |-> UpdateRow(vals, SetMin(found), weight, reps, notes), ret |-> TRUE])

\* _add_new_set_to_session and the row append_workout_data writes for it
add_new_set_to_session(vals, session, exercise, set_number, weight, reps) ==
  [values |-> Append(vals, [date           |-> session.date,
                            exercise       |-> exercise,
                            set_number     |-> set_number,
                            weight_lbs     |-> Updated("", weight),
                            reps           |-> Updated("", reps),
                            segment_note   |-> "",
                            template       |-> session.template,
                            session_status |-> "active"]),
   ret |-> TRUE]

\* lines 612-627 for the active session
UpdateSetIn(vals, session, exercise, set_number, weight, reps, notes) ==
  Bind(ExistingSet(session, exercise, set_number), LAMBDA existing :
    IF existing # <<>>
    THEN update_existing_set(vals, existing[1], weight, reps, notes)
    ELSE add_new_set_to_session(vals, session, exercise, set_number, weight, reps))

\* only the first active row is completed
CompletedRows_first(vals) ==
  [i \in 1..Len(vals) |->
     IF vals[i].session_status = "active"
        /\ \A k \in 1..(i - 1) : vals[k].session_status # "active"
     THEN [vals[i] EXCEPT !.session_status = "completed"]
     ELSE vals[i]]

\* the rows after complete_workout_session: every active row completed
CompletedRows(vals) ==
  [i \in 1..Len(vals) |->
     IF vals[i].session_status = "active"
     THEN [vals[i] EXCEPT !.session_status = "completed"]
     ELSE vals[i]]

(***************************************************************************)
(* Specification of the session requests served one after another          *)
(***************************************************************************)
MaxSheetRows == 3
SessionTemplates == {"upper1", "push"}
SessionDates == {"2024-01-01"}
LoggedExercises == {"Pec dec fly", "Tricep pushdowns"}
LoggedSetNumbers == {1, 2}
LoggedValues == {[weight |-> "50", reps |-> "8"], [weight |-> "60", reps |-> "10"]}

InitSession ==
  /\ values = <<>>
  /\ current_session_info = None
  /\ call = [op |-> "init"]
  /\ returned = "none"
  /\ ParserIdle
  /\ SheetIdle
  /\ NormIdle
  /\ MainIdle
  /\ DbIdle
  /\ ExpandIdle

\* start_workout_session(template, date), lines 484-511; read_ok tells
\* whether the Sheets read of the request succeeds
StartWorkoutSession(template, date, read_ok) ==
  /\ call' = [op |-> "start", template |-> template, date |-> date, read_ok |-> read_ok]
  /\ IF ReadActiveSession(values, current_session_info, read_ok) # None
        \/ TemplateExercises(template) = <<>>
     THEN /\ returned' = "WorkoutAPIError"
          /\ UNCHANGED <<values, current_session_info>>
     ELSE /\ current_session_info' = <<[template |-> template, date |-> date]>>
          /\ returned' = "session_id"
          /\ UNCHANGED values
  /\ UNCHANGED <<parserVars, sheetVars, normVars, mainVars, dbVars, expandVars>>

\* update_set_in_session(exercise, set_number, weight, reps), lines 600-627
UpdateSetInSession(exercise, set_number, weight, reps) ==
  /\ call' = [op |-> "log-set", exercise |-> exercise, set_number |-> set_number,
               weight |-> weight, reps |-> reps]
  /\ Bind(get_active_session(values, current_session_info), LAMBDA active :
        IF active = None
        THEN returned' = "WorkoutAPIError" /\ UNCHANGED values
        ELSE Bind(UpdateSetIn(values, active[1], exercise, set_number,
                              <<weight>>, <<reps>>, None), LAMBDA r :
               /\ Len(r.values) <= MaxSheetRows
               /\ values' = r.values
               /\ returned' = IF r.ret THEN "True" ELSE "False"))
  /\ UNCHANGED current_session_info
  /\ UNCHANGED <<parserVars, sheetVars, normVars, mainVars, dbVars, expandVars>>

\* complete_workout_session(), lines 708-759
CompleteWorkoutSession ==
  /\ call' = [op |-> "complete"]
  /\ IF get_active_session(values, current_session_info) = None
     THEN /\ returned' = "WorkoutAPIError"
          /\ UNCHANGED <<values, current_session_info>>
     ELSE /\ values' = CompletedRows(values)
          /\ current_session_info' = None
          /\ returned' = "True"
  /\ UNCHANGED <<parserVars, sheetVars, normVars, mainVars, dbVars, expandVars>>

\* cancel_workout_session(), lines 761-780
CancelWorkoutSession ==
  /\ call' = [op |-> "cancel"]
  /\ returned' = "True"
  /\ current_session_info' =
        IF get_active_session(values, current_session_info) = None
        THEN current_session_info ELSE None
  /\ UNCHANGED values
  /\ UNCHANGED <<parserVars, sheetVars, normVars, mainVars, dbVars, expandVars>>

NextSession ==
  \/ \E template \in SessionTemplates, date \in SessionDates, read_ok \in BOOLEAN :
        StartWorkoutSession(template, date, read_ok)
  \/ \E exercise \in LoggedExercises, set_number \in LoggedSetNumbers, v \in LoggedValues :
        UpdateSetInSession(exercise, set_number, v.weight, v.reps)
  \/ CompleteWorkoutSession
  \/ CancelWorkoutSession

SpecSession == InitSession /\ [][NextSession]_vars

(***************************************************************************)
(* WorkoutDB (archive/workout_db.py): select, insert and delete over the   *)
(* rows A2:G of the sheet, with the cache of _get_all_data.  A row is the  *)
(* list of its cells as values().get returns it: texts, the trailing empty *)
(* cells left out, an empty list for a blank row.  An optional field of an *)
(* entry is None or <<value>>.                                             *)
(***************************************************************************)
\* row + [""] * (7 - len(row))
PadRow(row) == row \o [k \in 1..(7 - Len(row)) |-> <<>>]

\* int() or float() of a cell that is not empty raises ValueError
CellRaises(r) ==
  \/ r[4] # <<>> /\ Int0(r[4]) = -1
  \/ r[5] # <<>> /\ Float(r[5]) = ValueError
  \/ r[6] # <<>> /\ Int0(r[6]) = -1

\* the WorkoutEntry of a padded row
EntryOf(r) ==
  [date       |-> r[1],
   template   |-> r[2],
   exercise   |-> r[3],
   set_number |-> IF r[4] # <<>> THEN Int0(r[4]) ELSE 1,
   weight     |-> IF r[5] # <<>> THEN <<Float(r[5])>> ELSE None,
   reps       |-> IF r[6] # <<>> THEN <<Int0(r[6])>> ELSE None,
   notes      |-> IF r[7] # <<>> THEN <<r[7]>> ELSE None]

\* WorkoutEntry.from_row: <<entry>>, or <<>> when it raises
from_row(row) ==
  Bind(PadRow(row), LAMBDA r : IF CellRaises(r) THEN <<>> ELSE <<EntryOf(r)>>)

\* str(weight) of a float
FloatText(d) == IF d.e = 0 THEN NatToText(d.m) \o <<".", "0">> ELSE FormatReps(d)

\* WorkoutEntry.to_row
to_row(entry) ==
  <<entry.date, entry.template, entry.exercise, NatToText(entry.set_number),
    IF entry.weight # None THEN FloatText(entry.weight[1]) ELSE <<>>,
    IF entry.reps # None THEN NatToText(entry.reps[1]) ELSE <<>>,
    IF entry.notes # None THEN entry.notes[1] ELSE <<>>>>

\* the row as the sheet gives it back: without its trailing empty cells
TrimRow(row) ==
  SubSeq(row, 1, SetMax({0} \cup {k \in 1..Len(row) : row[k] # <<>>}))

\* the cache answers: it is asked, it is filled and it is younger than the ttl
CacheHit(use_cache) == use_cache /\ cache # None /\ cache_fresh

\* the rows _get_all_data returns
get_all_data(use_cache) == IF CacheHit(use_cache) THEN cache[1] ELSE stored

\* lines 335-341 of select: the entries of the rows that are not blank and
\* that from_row accepts
Entries(data) ==
  Concat([k \in 1..Len(data) |-> IF data[k] = <<>> THEN <<>> ELSE from_row(data[k])])

\* A where-clause maps fields to conditions.  A condition is a plain value,
\* Is(v), or a dict with an operator and a target, Op(operator, target).
Is(v) == [dict |-> FALSE, value |-> v]

Op(operator, target) == [dict |-> TRUE, operator |-> operator, value |-> target]

\* the optional fields hold None or <<value>>
OptionalFields == {"weight", "reps", "notes"}

\* getattr(entry, field) as None or <<value>>
FieldValue(entry, field) ==
  IF field \in OptionalFields THEN entry[field] ELSE <<entry[field]>>

\* bool(value): not None, not 0, not 0.0, not ""
Truthy(field, v) ==
  /\ v # None
  /\ CASE field \in {"set_number", "reps"} -> v[1] # 0
       [] field = "weight" -> v[1].m # 0
       [] OTHER -> v[1] # <<>>

\* str(value).lower()
StrLower(field, x) ==
  Lower(CASE field \in {"set_number", "reps"} -> NatToText(x)
          [] field = "weight" -> FloatText(x)
          [] OTHER -> x)

\* text starts with pre
StartsWith(text, pre) == Len(pre) <= Len(text) /\ SubSeq(text, 1, Len(pre)) = pre

\* lines 374-400: a dict condition on the value of a field; the orderings are
\* those of the whole numbers of set_number and reps, the targets of contains
\* and startswith are texts; an operator that is not known tests nothing
OperatorHolds(field, value, v, operator, target) ==
  CASE operator = "="  -> value = target
    [] operator = ">"  -> Truthy(field, v) /\ v[1] > target
    [] operator = ">=" -> Truthy(field, v) /\ v[1] >= target
    [] operator = "<"  -> Truthy(field, v) /\ v[1] < target
    [] operator = "<=" -> Truthy(field, v) /\ v[1] <= target
    [] operator = "!=" -> value # target
    [] operator = "contains" ->
         Truthy(field, v) /\ Contains(StrLower(field, v[1]), Lower(target))
    [] operator = "startswith" ->
         Truthy(field, v) /\ StartsWith(StrLower(field, v[1]), Lower(target))
    [] OTHER -> TRUE

\* lines 371-403: every condition of the where-clause holds of the entry
Matches(entry, where) ==
  \A f \in DOMAIN where :
     IF where[f].dict
     THEN OperatorHolds(f, entry[f], FieldValue(entry, f), where[f].operator, where[f].value)
     ELSE entry[f] = where[f].value

\* _apply_where_clause
apply_where_clause(entries, where) ==
  SelectSeq(entries, LAMBDA entry : Matches(entry, where))

\* lines 514-519 of delete: value != condition for every field, and no value
\* of an entry equals a dict
DeleteMatches(entry, where) ==
  \A f \in DOMAIN where : ~where[f].dict /\ entry[f] = where[f].value

\* the loop of delete on one row: a row with an entry that matches
RowMatches(row, where) ==
  /\ row # <<>>
  /\ Bind(from_row(row), LAMBDA e : e # <<>> /\ DeleteMatches(e[1], where))

\* remaining_rows of delete: blank rows are skipped, invalid rows are kept
remaining_rows(data, where) ==
  SelectSeq(data, LAMBDA row : row # <<>> /\ ~RowMatches(row, where))

\* deleted_count of delete
deleted_count(data, where) ==
  Len(SelectSeq(data, LAMBDA row : RowMatches(row, where)))

\* the cache stays as the last read filled it
clear_cache_kept(fetched) == <<fetched>>

\* _clear_cache
clear_cache(fetched) == None

(***************************************************************************)
(* Specification of one WorkoutDB instance on a sheet of its own           *)
(***************************************************************************)
MaxDbRows == 3

\* 100.0 x 8 of B, set 1
RowBench == << <<"d">>, <<"t">>, <<"B">>, <<"1">>, <<"1","0","0",".","0">>, <<"8">> >>

\* no set number, 100 of B, a note
RowNoted == << <<"d">>, <<"t">>, <<"B">>, <<>>, <<"1","0","0">>, <<>>, <<"o","k">> >>

\* set 2 of S, nothing else
RowSquat == << <<"d">>, <<"t">>, <<"S">>, <<"2">> >>

\* a set number that is no number
RowInvalid == << <<"d">>, <<"t">>, <<"B">>, <<"x">> >>

DbRows == {RowBench, RowNoted, RowSquat, RowInvalid, <<>>}

DbEntries ==
  {[date |-> <<"d">>, template |-> <<"t">>, exercise |-> <<"B">>, set_number |-> 2,
    weight |-> <<[m |-> 1025, e |-> 1]>>, reps |-> <<8>>, notes |-> None]}

DbWheres ==
  {[exercise |-> Is(<<"B">>)],
   [exercise |-> Is(<<"S">>)],
   [exercise |-> Is(<<"Z">>)],
   [exercise |-> Is(<<"B">>), set_number |-> Is(1)],
   [set_number |-> Is(2)],
   [weight |-> Is(<<[m |-> 100, e |-> 0]>>)],
   [notes |-> Is(None)],
   [notes |-> Op("contains", <<"O">>)],
   [exercise |-> Op("startswith", <<"s">>)],
   [exercise |-> Op("!=", <<"B">>)],
   [set_number |-> Op(">", 1)]}

InitDb ==
  /\ stored \in SeqsUpTo(DbRows, MaxDbRows)
  /\ cache = None
  /\ cache_fresh = FALSE
  /\ dbcall = NoDbCall
  /\ dbret = NoDbResult
  /\ ParserIdle
  /\ SheetIdle
  /\ NormIdle
  /\ MainIdle
  /\ ApiIdle
  /\ ExpandIdle

\* select(where), lines 325-362
Select(where) ==
  /\ dbcall' = [op |-> "select", where |-> where]
  /\ dbret' = [count |-> 0,
               entries |-> apply_where_clause(Entries(get_all_data(TRUE)), where)]
  /\ cache' = IF CacheHit(TRUE) THEN cache ELSE <<stored>>
  /\ cache_fresh' = TRUE
  /\ UNCHANGED stored
  /\ UNCHANGED <<parserVars, sheetVars, normVars, mainVars, apiVars, expandVars>>

\* insert(entry), lines 294-323
Insert(entry) ==
  /\ Len(stored) < MaxDbRows
  /\ dbcall' = [op |-> "insert", where |-> <<>>]
  /\ stored' = Append(stored, TrimRow(to_row(entry)))
  /\ cache' = clear_cache(stored)
  /\ cache_fresh' = FALSE
  /\ dbret' = [count |-> 1, entries |-> <<>>]
  /\ UNCHANGED <<parserVars, sheetVars, normVars, mainVars, apiVars, expandVars>>

\* delete(where), lines 497-550: the sheet is read past the cache, and it is
\* cleared and written again when a row matched
Delete(where) ==
  /\ dbcall' = [op |-> "delete", where |-> where]
  /\ dbret' = [count |-> deleted_count(stored, where), entries |-> <<>>]
  /\ IF deleted_count(stored, where) > 0
     THEN /\ stored' = remaining_rows(stored, where)
          /\ cache' = clear_cache(stored)
     ELSE /\ stored' = stored
          /\ cache' = <<stored>>
  /\ cache_fresh' = (cache' # None)
  /\ UNCHANGED <<parserVars, sheetVars, normVars, mainVars, apiVars, expandVars>>

\* more than _cache_ttl seconds pass
ExpireCache ==
  /\ cache # None
  /\ cache_fresh
  /\ cache_fresh' = FALSE
  /\ UNCHANGED <<stored, cache, dbcall, dbret>>
  /\ UNCHANGED <<parserVars, sheetVars, normVars, mainVars, apiVars, expandVars>>

NextDb ==
  \/ \E where \in DbWheres : Select(where)
  \/ \E entry \in DbEntries : Insert(entry)
  \/ \E where \in DbWheres : Delete(where)
  \/ ExpireCache

SpecDb == InitDb /\ [][NextDb]_vars

(***************************************************************************)
(* POST /api/workout and GET /api/workouts (backend_api.py:812-889) with   *)
(* append_workout_data and get_recent_workouts.  A cell, a value of the    *)
(* posted JSON and "" are texts; a row of values is the list of cells that *)
(* values().get returns, its trailing empty cells left out.  The sheet     *)
(* gives back the texts appended to it.                                    *)
(***************************************************************************)
\* the headers _setup_headers writes to a sheet that has none
current_headers ==
  <<"date", "exercise", "set_number", "weight_lbs", "reps", "side", "setting",
    "segment_note", "feeling", "reps_raw_part", "raw_cell", "weight_unit_raw",
    "_set_row", "_part_idx", "source_file", "template", "session_status">>

\* d.get(key, "")
Get(d, key) == IF key \in DOMAIN d THEN d[key] ELSE <<>>

\* lines 287-322: the cell of an entry under a header
AppendedCell(header, entry) ==
  CASE header = "date" -> Get(entry, "date")
    [] header = "exercise" -> Get(entry, "exercise")
    [] header = "set_number" -> Get(entry, "set_number")
    [] header = "weight_lbs" -> Get(entry, "weight_lbs")
    [] header = "reps" -> Get(entry, "reps")
    [] header = "segment_note" -> Get(entry, "notes")
    [] header = "feeling" -> Get(entry, "rpe")
    [] header = "weight_unit_raw" ->
         IF Get(entry, "weight") # <<>> THEN <<"l","b","s">> ELSE <<>>
    [] header = "source_file" -> <<"w","o","r","k","o","u","t","_","a","p","p">>
    [] header = "template" -> Get(entry, "template")
    [] header = "session_status" -> Get(entry, "session_status")
    [] OTHER -> <<>>

\* the rows append_workout_data sends, as the sheet gives them back
append_workout_data(workout_data) ==
  [k \in 1..Len(workout_data) |->
     TrimRow([i \in 1..Len(current_headers) |->
                AppendedCell(current_headers[i], workout_data[k])])]

\* lines 837-848: the dict log_workout builds for the set set_num of an exercise
WorkoutRow(data, exercise_name, set_num, set_data) ==
  [date     |-> data.date,
   template |-> data.template,
   exercise |-> exercise_name,
   set      |-> NatToText(set_num),
   weight   |-> Get(set_data, "weight"),
   reps     |-> Get(set_data, "reps"),
   notes    |-> Get(set_data, "notes"),
   rpe      |-> Get(set_data, "rpe")]

\* workout_rows of log_workout; exercises is the list of the items of the
\* posted object, <<name, sets>>
workout_rows(data) ==
  Concat([x \in 1..Len(data.exercises) |->
            [k \in 1..Len(data.exercises[x][2]) |->
               WorkoutRow(data, data.exercises[x][1], k, data.exercises[x][2][k])]])

\* the cell of a row under a header, "" past the end of the row
CellUnder(row, header) ==
  Bind(CHOOSE i \in 1..Len(current_headers) : current_headers[i] = header, LAMBDA i :
    IF i <= Len(row) THEN row[i] ELSE <<>>)

\* lines 411-420: weight * reps, None for ""
Volume(weight, reps) ==
  Bind(IF weight = <<>> THEN [m |-> 0, e |-> 0] ELSE Float(weight), LAMBDA w :
  Bind(IF reps = <<>> THEN 0 ELSE Int0(reps), LAMBDA r :
    IF w = ValueError \/ r = -1 \/ w.m = 0 \/ r = 0 THEN None
    ELSE <<NormDec([m |-> w.m * r, e |-> w.e])>>))

\* lines 386-420: the dict of a row, its cells under the names of the API and
\* under the headers
WorkoutOf(row) ==
  [h \in {current_headers[i] : i \in 1..Len(current_headers)} |-> CellUnder(row, h)]
    @@ [set    |-> CellUnder(row, "set_number"),
        weight |-> CellUnder(row, "weight_lbs"),
        notes  |-> CellUnder(row, "segment_note"),
        rpe    |-> CellUnder(row, "feeling"),
        volume |-> Volume(CellUnder(row, "weight_lbs"), CellUnder(row, "reps"))]

\* get_recent_workouts(limit): of the last limit * 10 rows, the latest first,
\* the first limit rows that have three cells or more
get_recent_workouts(all_values, limit) ==
  Bind(SubSeq(all_values, SetMax({0, Len(all_values) - limit * 10}) + 1, Len(all_values)),
       LAMBDA recent_rows :
  Bind(SelectSeq([k \in 1..Len(recent_rows) |-> recent_rows[Len(recent_rows) + 1 - k]],
                 LAMBDA row : Len(row) >= 3), LAMBDA kept :
    [k \in 1..SetMin({limit, Len(kept)}) |-> WorkoutOf(kept[k])]))

(***************************************************************************)
(* Specification of workouts posted and read back                          *)
(***************************************************************************)
MaxLogRows == 3
MaxLogSets == 2

LogSets ==
  {[weight |-> <<"5","0">>, reps |-> <<"8">>],
   [weight |-> <<"6","2",".","5">>, reps |-> <<"1","0">>, notes |-> <<"o","k">>]}

LogSetLists == UNION {[1..n -> LogSets] : n \in 1..MaxLogSets}

\* the posted objects: one or two exercises with their sets, and two that
\* the handler refuses
LogPosts ==
  {[date |-> <<"d">>, template |-> <<"t">>, exercises |-> ex] :
     ex \in {<<>>} \cup {<< <<<<"A">>, sa>> >> : sa \in LogSetLists}
                  \cup {<< <<<<"B">>, sb>>, <<<<"A">>, sa>> >> :
                          sa \in LogSetLists, sb \in {<<s>> : s \in LogSets}}}
    \cup {<<>>, [date |-> <<"d">>, template |-> <<"t">>]}

RecentLimits == {1, 50}

InitLog ==
  /\ values = <<>>
  /\ current_session_info = None
  /\ call = [op |-> "init"]
  /\ returned = "none"
  /\ ParserIdle
  /\ SheetIdle
  /\ NormIdle
  /\ MainIdle
  /\ DbIdle
  /\ ExpandIdle

\* log_workout, lines 812-871
LogWorkout(data) ==
  /\ call' = [op |-> "log", data |-> data]
  /\ IF data = <<>>
     THEN /\ returned' = [status |-> 400, error |-> "No data provided"]
          /\ UNCHANGED values
     ELSE IF {"date", "template", "exercises"} \ DOMAIN data # {}
     THEN /\ returned' = [status |-> 400, error |-> "Missing required field"]
          /\ UNCHANGED values
     ELSE Bind(workout_rows(data), LAMBDA rows_posted :
            /\ Len(values) + Len(rows_posted) <= MaxLogRows
            /\ values' = values \o append_workout_data(rows_posted)
            /\ returned' = [status |-> 200, rows_added |-> Len(rows_posted)])
  /\ UNCHANGED current_session_info
  /\ UNCHANGED <<parserVars, sheetVars, normVars, mainVars, dbVars, expandVars>>

\* GET /api/workouts?limit=..., lines 873-889
GetRecentWorkouts(limit) ==
  /\ call' = [op |-> "recent", limit |-> limit]
  /\ Bind(get_recent_workouts(values, limit), LAMBDA workouts :
        returned' = [status |-> 200, workouts |-> workouts, count |-> Len(workouts)])
  /\ UNCHANGED <<values, current_session_info>>
  /\ UNCHANGED <<parserVars, sheetVars, normVars, mainVars, dbVars, expandVars>>

NextLog ==
  \/ \E data \in LogPosts : LogWorkout(data)
  \/ \E limit \in RecentLimits : GetRecentWorkouts(limit)

SpecLog == InitLog /\ [][NextLog]_vars

(***************************************************************************)
(* Specification of the loop of expand_group_settings_trailing             *)
(* (flatten_workout.py:46-49), one pass of pat.sub a step.  prev is None   *)
(* or <<text>>.                                                            *)
(***************************************************************************)
MaxExpandToks == 3

ExpandToks ==
  {<<"(","1","+","2",")">>, <<"(","3","+","4">>, <<"(","h",")">>,
   <<"(">>, <<")">>, <<"+">>, <<"5">>, <<" ">>}

ExpandArgs == {Concat(ts) : ts \in SeqsUpTo(ExpandToks, MaxExpandToks)}

\* the texts of S and what up to k passes of pat.sub make of them
RECURSIVE SubClosure(_, _)
SubClosure(S, k) ==
  IF k = 0 THEN S ELSE SubClosure(S \cup {GroupSub(t, 1) : t \in S}, k - 1)

\* pat.sub(repl, t) for every text t a pass of the loop can meet: an argument
\* has at most MaxExpandToks - 1 places where ")" stands before "("
PatSub ==
  [t \in SubClosure({Strip(a) : a \in ExpandArgs}, MaxExpandToks) |-> GroupSub(t, 1)]

InitExpand ==
  /\ expand_arg \in ExpandArgs
  /\ expand_blob = <<>>
  /\ prev = None
  /\ epc = "start"
  /\ ParserIdle
  /\ SheetIdle
  /\ NormIdle
  /\ MainIdle
  /\ ApiIdle
  /\ DbIdle

\* prev = None; reps_blob = reps_blob.strip()
ExpandStart ==
  /\ epc = "start"
  /\ expand_blob' = Strip(expand_arg)
  /\ prev' = None
  /\ epc' = "loop"
  /\ UNCHANGED expand_arg
  /\ UNCHANGED <<parserVars, sheetVars, normVars, mainVars, apiVars, dbVars>>

\* while prev != reps_blob: prev = reps_blob; reps_blob = pat.sub(repl, reps_blob)
ExpandPass ==
  /\ epc = "loop"
  /\ prev # <<expand_blob>>
  /\ prev' = <<expand_blob>>
  /\ expand_blob' = PatSub[expand_blob]
  /\ UNCHANGED <<expand_arg, epc>>
  /\ UNCHANGED <<parserVars, sheetVars, normVars, mainVars, apiVars, dbVars>>

\* return reps_blob
ExpandReturn ==
  /\ epc = "loop"
  /\ prev = <<expand_blob>>
  /\ epc' = "returned"
  /\ UNCHANGED <<expand_arg, expand_blob, prev>>
  /\ UNCHANGED <<parserVars, sheetVars, normVars, mainVars, apiVars, dbVars>>

NextExpand == ExpandStart \/ ExpandPass \/ ExpandReturn

\* the function runs on: no step of it waits for anything
SpecExpand == InitExpand /\ [][NextExpand]_vars /\ WF_vars(NextExpand)

(***************************************************************************)
(* Properties                                                              *)
(***************************************************************************)
Parsed == pc = "parsed"

KilogramUnits == {<<"k","g">>, <<"k","g","s">>}

SpecUnits == {<<"l","b">>, <<"l","b","s">>, <<"k","g">>, <<"k","g","s">>, <<"p","o">>}

\* the pounds a written weight stands for: value * 2.2046226218 for a
\* kilogram unit, the value itself otherwise
ExpectedLbs(v, u) ==
  IF Lower(u) \in KilogramUnits THEN TimesKgToLb(Float(v)) ELSE AsPounds(Float(v))

\* the same weight rounded to 2 decimals, in hundredths of a pound
ExpectedHundredths(v, u) ==
  IF Lower(u) \in KilogramUnits
  THEN CASE v = <<"1","0">> -> 2205 [] v = <<"7",".","5">> -> 1653 [] v = <<"5","0">> -> 11023 [] v = <<"1","3","5">> -> 29762
  ELSE CASE v = <<"1","0">> -> 1000 [] v = <<"7",".","5">> -> 750 [] v = <<"5","0">> -> 5000 [] v = <<"1","3","5">> -> 13500

HasDigit(txt) == \E j \in 1..Len(txt) : IsDigit(txt[j])

\* C1: parse_entry_cell is total: for every cell text it returns a list of
\* parts and never raises, so no entry aborts the loop of flatten_one.
C1_ParserTotal == pc \in {"ready", "parsed"} /\ exc = ""

\* C1 witness: a cell with an unbalanced parenthesis and a stray '+' parsed.
C1_Witness == Parsed /\ cell = <<"(", "8", "+">> /\ exc = ""

\* C2: a cell made of k >= 1 pairs <Side><number><unit> <reps> parses to
\* exactly k parts, one per pair in order, each with the pair's side, reps
\* and own weight in pounds.
C2_PairFastPath ==
  (Parsed /\ shape.kind = "pairs") =>
     LET k == GroupCount(shape.toks, 0, 4)
     IN  /\ Len(parts) = k
         /\ \A i \in 1..k :
              LET g == Group(shape.toks, 0, 4, i)
              IN  /\ parts[i].side = g[1]
                  /\ parts[i].reps = Float(g[4])
                  /\ parts[i].weight_lbs = <<ExpectedLbs(g[2], g[3])>>

\* C3: a cell <weight> (<setting>) n1+...+nk parses to exactly k parts with
\* reps n1..nk in order, each with the setting and the weight.
C3_LeadingGroupSetting ==
  (Parsed /\ shape.kind = "group") =>
     LET ns == SubSeq(shape.toks, 4, Len(shape.toks))
     IN  /\ Len(parts) = Len(ns)
         /\ \A i \in 1..Len(ns) :
              /\ parts[i].reps = Float(ns[i])
              /\ parts[i].setting = shape.toks[3]
              /\ parts[i].weight_lbs = <<ExpectedLbs(shape.toks[1], shape.toks[2])>>

\* the same cell with the side written on the other end of the number
Mirror(sh) ==
  [sh EXCEPT !.toks[4] = IF sh.toks[4] = <<"p","r","e">> THEN <<"p","o","s","t">>
                         ELSE <<"p","r","e">>]

\* C4: for each side S in {R, L} and every n, the cells <S><n> and <n><S>,
\* with or without a weight before them, parse to equivalent part lists: one
\* part with reps n and side S and the same weight.
C4_SidePrefixCanonical ==
  (Parsed /\ shape.kind = "side") =>
     /\ Len(parts) = 1
     /\ parts[1].reps = Float(shape.toks[3])
     /\ parts[1].side = shape.toks[2]
     /\ parts = parse_entry_cell(Render(Mirror(shape))).parts

\* the rows of out in the same (date, exercise) group as row i
GroupOf(i) ==
  {j \in 1..Len(out) : out[j].date = out[i].date /\ out[j].exercise = out[i].exercise}

\* C5: within one (date, exercise) group, rows from an earlier sheet row have
\* smaller set numbers than rows from a later sheet row, set numbers grow with
\* the part index within a cell, and the set numbers of the group are 1..k;
\* also when the exercise occurs in more than one block of the sheet.
C5_FlatteningOrder ==
  fpc = "flattened" =>
     \A i \in 1..Len(out) :
        /\ {out[j].set_number : j \in GroupOf(i)} = 1..Cardinality(GroupOf(i))
        /\ \A j \in GroupOf(i) :
              /\ out[i].pos < out[j].pos => out[i].set_number < out[j].set_number
              /\ (out[i].pos = out[j].pos /\ out[i].part_idx < out[j].part_idx)
                    => out[i].set_number < out[j].set_number

\* the position after a leading <number><unit> token with a unit of the
\* vocabulary lb, lbs, kg, kgs, po (any letter case), 0 when the text does
\* not begin with one
LeadingWeightEnd(txt) ==
  LET numEnd == MatchNumber(txt, SkipSpaces(txt, 1))
      unitAt == SkipSpaces(txt, numEnd)
      ends   == {e \in (unitAt + 2)..(unitAt + 3) :
                   /\ e <= Len(txt) + 1
                   /\ Lower(Slice(txt, unitAt, e)) \in SpecUnits
                   /\ (e = Len(txt) + 1 \/ ~IsWordChar(txt[e]))}
  IN  IF numEnd = 0 \/ ends = {} THEN 0 ELSE SetMax(ends)

\* C6: parse_weight records a weight only when the cell begins with a
\* <number><unit> token of the vocabulary, the rest is then the text after
\* the token; otherwise the weight is null and the rest is the whole cell.
C6_WeightExtraction ==
  Parsed =>
     LET e == LeadingWeightEnd(cell)
     IN  IF e # 0
         THEN pw.lbs # None /\ pw.rest = Strip(From(cell, e))
         ELSE pw.lbs = None /\ Strip(pw.rest) = Strip(cell)

\* C7: weight_lbs is in pounds on both paths: the written value times
\* 2.2046226218 for a kilogram unit, the written value for a pound unit,
\* exact in the part and rounded to 2 decimals only in the FlatRow.
C7_WeightInPounds ==
  Parsed =>
     /\ shape.kind = "pairs" =>
          \A i \in 1..Len(parts) :
             \E k \in 1..GroupCount(shape.toks, 0, 4) :
                LET g == Group(shape.toks, 0, 4, k)
                IN  /\ parts[i].reps = Float(g[4])
                    /\ parts[i].weight_unit_raw = Lower(g[3])
                    /\ parts[i].weight_lbs = <<ExpectedLbs(g[2], g[3])>>
                    /\ rows[i].weight_lbs = <<ExpectedHundredths(g[2], g[3])>>
     /\ shape.kind \in {"group", "feel"} =>
          /\ parts # <<>>
          /\ \A i \in 1..Len(parts) :
                /\ parts[i].weight_lbs = <<ExpectedLbs(shape.toks[1], shape.toks[2])>>
                /\ rows[i].weight_lbs = <<ExpectedHundredths(shape.toks[1], shape.toks[2])>>

\* C7 witness: a part of the pair path written in kgs, 10 kgs being
\* 22.046226218 lb in the part and 22.05 in the row.
C7_Witness ==
  /\ Parsed /\ shape.kind = "pairs" /\ Len(parts) = 1
  /\ parts[1].weight_unit_raw = <<"k", "g", "s">>
  /\ parts[1].side # None
  /\ parts[1].weight_lbs = <<[a |-> 2204, b |-> 6226, c |-> 2180, e |-> 10]>>
  /\ rows[1].weight_lbs = <<2205>>

\* C8: for a weight followed only by free text of one or more words, the
\* single part carries all of that text in feeling.
C8_FreeTextKept ==
  (Parsed /\ shape.kind = "feel" /\ Len(shape.toks) > 2) =>
     /\ Len(parts) = 1
     /\ parts[1].feeling = Join(SubSeq(shape.toks, 3, Len(shape.toks)), Sp)

\* what segment g = <<n, multiplier, suffix>> stands for
SegExpected(g) ==
  [reps |-> Float(g[1]),
   side |-> IF g[3] = <<"R">> THEN <<"R">> ELSE None,
   segment_note |-> IF g[3] = <<"R">> THEN None ELSE Upper(g[3]),
   setting |-> None]

RECURSIVE MultExpected(_, _)
MultExpected(ts, k) ==
  IF k > GroupCount(ts, 1, 3) THEN <<>>
  ELSE LET g == Group(ts, 1, 3, k)
       IN  Repeat(SegExpected(g), IF g[2] = <<>> THEN 1 ELSE DigitsValue(g[2]))
           \o MultExpected(ts, k + 1)

\* C9: a segment n*N (N >= 1) gives N parts with reps n and the same side,
\* setting, note, weight and feeling, a segment without a multiplier gives
\* one part, so a cell has as many parts as the sum of its multipliers.
C9_MultiplierExpansion ==
  (Parsed /\ shape.kind = "mult") =>
     /\ [i \in 1..Len(parts) |->
           [reps |-> parts[i].reps, side |-> parts[i].side,
            segment_note |-> parts[i].segment_note, setting |-> parts[i].setting]]
        = MultExpected(shape.toks, 1)
     /\ \A i \in 1..Len(parts) :
           /\ parts[i].weight_lbs = parts[1].weight_lbs
           /\ parts[i].feeling = parts[1].feeling
           /\ (parts[i].weight_lbs = None) <=> (shape.toks[1] = <<>>)

\* C9 witness: "50lb 8R*2+5" parsed into the three parts 8R, 8R, 5.
C9_Witness ==
  /\ Parsed /\ shape.kind = "mult"
  /\ cell = <<"5","0","l","b"," ","8","R","*","2","+","5">>
  /\ Len(parts) = 3
  /\ parts[1] = parts[2] /\ parts[2].side = <<"R">> /\ parts[3].reps = [m |-> 5, e |-> 0]

\* C10: when parse_weight finds a weight and the rest holds no numeric rep
\* segment (here: no digit), there is exactly one part, with 12 reps, that
\* weight, and no side, setting, note or raw reps text.
C10_NoRepsFallback ==
  (Parsed /\ pw.lbs # None /\ ~HasDigit(pw.rest)) =>
     /\ Len(parts) = 1
     /\ parts[1].reps = [m |-> 12, e |-> 0]
     /\ parts[1].weight_lbs = pw.lbs
     /\ parts[1].side = None /\ parts[1].setting = None
     /\ parts[1].segment_note = None /\ parts[1].reps_raw_part = None

\* C10 witness: "135lb strong" parsed into one part of 12 reps at 135 lb.
C10_Witness ==
  /\ Parsed /\ cell = <<"1","3","5","l","b"," ","s","t","r","o","n","g">>
  /\ pw.lbs # None /\ ~HasDigit(pw.rest)
  /\ Len(parts) = 1 /\ parts[1].reps = [m |-> 12, e |-> 0]
  /\ parts[1].weight_lbs = <<[a |-> 0, b |-> 0, c |-> 135, e |-> 0]>>

\* C11: a segment whose suffix is LLP in any letter case gives parts with no
\* segment_note, every part of its cell has LLP in its feeling, and no part
\* of any cell has the segment_note LLP.
C11_GlobalFeelingPromotion ==
  Parsed =>
     /\ \A i \in 1..Len(parts) : parts[i].segment_note # <<"L","L","P">>
     /\ shape.kind = "llp" =>
          \A k \in 1..GroupCount(shape.toks, 1, 3) :
             Upper(Group(shape.toks, 1, 3, k)[3]) = <<"L","L","P">> =>
                /\ \E i \in 1..Len(parts) :
                      parts[i].reps_raw_part = RenderSeg(Group(shape.toks, 1, 3, k))
                /\ \A i \in 1..Len(parts) :
                      /\ Contains(parts[i].feeling, <<"L","L","P">>)
                      /\ parts[i].reps_raw_part = RenderSeg(Group(shape.toks, 1, 3, k))
                            => parts[i].segment_note = None

\* C11 witness: "50lb 8llp*2+8x" parsed into 8llp twice, without a note and
\* with the feeling LLP, and 8x with the note X and the same feeling.
C11_Witness ==
  /\ Parsed /\ shape.kind = "llp"
  /\ cell = <<"5","0","l","b"," ","8","l","l","p","*","2","+","8","x">>
  /\ Len(parts) = 3
  /\ parts[1].segment_note = None /\ parts[2].segment_note = None
  /\ parts[3].segment_note = <<"X">>
  /\ \A i \in 1..3 : parts[i].feeling = <<"L","L","P">>

\* C12: an empty or whitespace-only cell, and any cell in which no weight
\* token is found and whose text holds no parsable rep segment, gives zero
\* parts and zero rows, and no error.
C12_EmptyFallback ==
  /\ (pc # "ready" /\ Strip(cell) = <<>>) => (Parsed /\ parts = <<>> /\ rows = <<>>)
  /\ (pc # "ready" /\ pw.lbs = None
         /\ split_reps_segments(normalize_tokens(cell)).segs = <<>>)
       => (Parsed /\ parts = <<>> /\ rows = <<>>)

\* C12 witness: the whitespace-only cell parsed into no part and no row.
C12_Witness == Parsed /\ cell = <<" ">> /\ pw.lbs = None /\ parts = <<>> /\ rows = <<>>

\* C13: normalize_tokens is idempotent: applied to its own result it returns
\* that result.
C13_NormalizeIdempotent == npc = "twice" => twice = once

\* C13 witness: "a\t a+" normalized to "a a+", and that text normalized
\* again.
C13_Witness ==
  /\ npc = "twice"
  /\ given = <<"a", "\t", " ", "a", "+">>
  /\ once = <<"a", " ", "a", "+">>
  /\ twice = once

\* the columns the clean view leaves out
DroppedCols == {"weight_unit_raw", "set_row", "part_idx"}

\* the sort key of a row of the full view
FullKey(r) == <<r[1], ExerciseRank(r[2]), r[3], FileRank(r[15])>>

\* key a is not after key b in lexicographic order
KeyLeq(a, b) ==
  \/ a = b
  \/ \E j \in 1..4 : a[j] < b[j] /\ \A k \in 1..(j - 1) : a[k] = b[k]

\* the positions of the full view's columns that the clean view keeps
KeptPositions == {k \in 1..Len(full_cols) : full_cols[k] \notin DroppedCols}

\* C14: when a row is produced, the full and the clean file hold the same
\* rows in the same order, the rows of all input files sorted by (date,
\* exercise, set_number, source_file), and the clean file is the full one
\* without the columns weight_unit_raw, _set_row and _part_idx.
C14_WriterViews ==
  (mpc = "exited" /\ status = 0 /\ Concat(all_parts) # <<>>) =>
     /\ full_csv.written /\ clean_csv.written
     /\ full_csv.header = full_cols
     /\ clean_csv.header = SelectPos(full_cols, KeptPositions, 1)
     /\ Len(clean_csv.rows) = Len(full_csv.rows)
     /\ \A i \in 1..Len(full_csv.rows) :
           clean_csv.rows[i] = SelectPos(full_csv.rows[i], KeptPositions, 1)
     /\ \A i \in 1..(Len(full_csv.rows) - 1) :
           KeyLeq(FullKey(full_csv.rows[i]), FullKey(full_csv.rows[i + 1]))
     /\ Len(full_csv.rows) = Len(Concat(all_parts))
     /\ \A r \in {full_csv.rows[i] : i \in 1..Len(full_csv.rows)} :
           Cardinality({i \in 1..Len(full_csv.rows) : full_csv.rows[i] = r})
           = Cardinality({i \in 1..Len(Concat(all_parts)) :
                            ToCsv(Concat(all_parts), full_cols).rows[i] = r})

\* C14 witness: two files written out together, the rows of exercise A from
\* b.csv before the rows of exercise B from a.csv, in both views.
C14_Witness ==
  /\ mpc = "exited" /\ status = 0 /\ Len(paths) = 2
  /\ paths[1].name = "a.csv" /\ paths[2].name = "b.csv"
  /\ Len(full_csv.rows) = 4 /\ Len(clean_csv.rows) = 4
  /\ full_csv.rows[1][2] = "A" /\ full_csv.rows[1][15] = "b.csv"
  /\ full_csv.rows[3][2] = "B" /\ full_csv.rows[3][15] = "a.csv"
  /\ full_csv.rows[4][3] = 2
  /\ clean_csv.rows[1][12] = "b.csv" /\ clean_csv.rows[4][12] = "a.csv"

\* C15: if one of the given paths does not exist, main exits with a
\* non-zero status before any file is read or parsed and before any file is
\* written, wherever the missing path stands in the list.
C15_StartupCheck ==
  (\E i \in 1..Len(paths) : ~paths[i].exists) =>
     /\ all_parts = <<>>
     /\ full_csv = NoFile /\ clean_csv = NoFile
     /\ mpc \in {"check", "exited"}
     /\ mpc = "exited" => status = 1

\* C15 witness: the second of two paths is missing and main has exited
\* with status 1 after the first passed the check.
C15_Witness ==
  /\ Len(paths) = 2 /\ paths[1].exists /\ ~paths[2].exists
  /\ paths[1].sheet[1].entries[2] = <<"8">>
  /\ mpc = "exited" /\ status = 1 /\ checked = 1
  /\ all_parts = <<>> /\ full_csv = NoFile

\* C20: a cell whose rep text is (n1+...+nk)(s), k >= 2, parses to exactly
\* k parts with reps n1..nk in order, each with the setting s.
C20_TrailingGroupExpansion ==
  (Parsed /\ shape.kind = "trail") =>
     /\ Len(parts) = Len(shape.toks) - 2
     /\ \A i \in 1..Len(parts) :
           /\ parts[i].reps = Float(shape.toks[i + 2])
           /\ parts[i].setting = shape.toks[2]
           /\ (parts[i].weight_lbs = None) <=> (shape.toks[1] = <<>>)

\* C20 witness: "50lb (6+3+6)(hi)" parsed into 6, 3, 6, each with the
\* setting hi.
C20_Witness ==
  /\ Parsed /\ shape.kind = "trail"
  /\ cell = <<"5","0","l","b"," ","(","6","+","3","+","6",")","(","h","i",")">>
  /\ Len(parts) = 3
  /\ parts[2].reps = [m |-> 3, e |-> 0]
  /\ \A i \in 1..3 : parts[i].setting = <<"h","i">>
  /\ parts[1].reps_raw_part = <<"6","(","h","i",")">>

\* the rows of session that are the set set_number of exercise
SetsOf(session, exercise, set_number) ==
  IF session = None THEN <<>> ELSE ExistingSet(session[1], exercise, set_number)

\* the positions of the sheet that hold the active set set_number of exercise
ActiveSetRows(vals, exercise, set_number) ==
  {i \in 1..Len(vals) : /\ vals[i].session_status = "active"
                        /\ vals[i].exercise = exercise
                        /\ vals[i].set_number = set_number}

\* C16: a log-set for an exercise and set number that the active session
\* already holds appends no row, leaves every other row of the sheet as it
\* was, and the next get_active_session shows that set with the weight and
\* the reps of the request, whatever sessions were completed before.
C16_AmendInPlace ==
  [][(/\ call'.op = "log-set"
      /\ SetsOf(get_active_session(values, current_session_info),
                call'.exercise, call'.set_number) # <<>>)
     => /\ returned' = "True"
        /\ Len(values') = Len(values)
        /\ \A i \in 1..Len(values) :
              i \notin ActiveSetRows(values, call'.exercise, call'.set_number)
                 => values'[i] = values[i]
        /\ Bind(SetsOf(get_active_session(values', current_session_info'),
                       call'.exercise, call'.set_number), LAMBDA shown :
              /\ shown # <<>>
              /\ \A k \in 1..Len(shown) : /\ shown[k].weight_lbs = call'.weight
                                          /\ shown[k].reps = call'.reps)]_vars

\* C17: once cancel_workout_session has returned True, get_active_session
\* returns no session, whatever sets the session had logged.
C17_CancelEndsSession ==
  (call.op = "cancel" /\ returned = "True")
     => get_active_session(values, current_session_info) = None

\* C18: when complete_workout_session returns True it leaves no row of the
\* sheet active, no session tracked and get_active_session without a session;
\* and a step that takes get_active_session from no session to a session is a
\* start_workout_session that succeeded.
C18_CompleteEndsSession ==
  [][/\ (call'.op = "complete" /\ returned' = "True")
          => /\ \A i \in 1..Len(values') : values'[i].session_status # "active"
             /\ current_session_info' = None
             /\ get_active_session(values', current_session_info') = None
     /\ (/\ get_active_session(values, current_session_info) = None
         /\ get_active_session(values', current_session_info') # None)
          => (call'.op = "start" /\ returned' = "session_id")]_vars

\* C18 witness: a session with two logged sets was completed, both rows
\* are on the sheet as completed rows.
C18_Witness ==
  /\ call.op = "complete"
  /\ returned = "True"
  /\ Len(values) = 2
  /\ \A i \in 1..2 : values[i].session_status = "completed"

\* the rows of the sheet that are not blank
Filled(data) == SelectSeq(data, LAMBDA row : row # <<>>)

\* every condition of the where-clause is a plain value
EqualityWhere(where) == \A f \in DOMAIN where : ~where[f].dict

\* C19: delete(where) with an equality where-clause returns the number of rows
\* whose entry matched and leaves the rows that did not match in their
\* order; a select(where) of the same instance that follows it returns no
\* entry.
C19_DeleteThenSelect ==
  [][/\ (dbcall'.op = "delete" /\ EqualityWhere(dbcall'.where))
          => /\ dbret'.count = Cardinality({i \in 1..Len(stored) :
                                              RowMatches(stored[i], dbcall'.where)})
             /\ Filled(stored') =
                  SelectSeq(Filled(stored), LAMBDA row : ~RowMatches(row, dbcall'.where))
     /\ (/\ dbcall.op = "delete"
         /\ EqualityWhere(dbcall.where)
         /\ dbcall'.op = "select"
         /\ dbcall'.where = dbcall.where)
          => dbret'.entries = <<>>]_vars

\* C19 witness: a delete removed the two rows of B, the row of S is what the
\* sheet holds and the cache is cleared.
C19_Witness ==
  /\ dbcall = [op |-> "delete", where |-> [exercise |-> Is(<<"B">>)]]
  /\ dbret.count = 2
  /\ stored = <<RowSquat>>
  /\ cache = None

\* the k-th segment of a shape of kind "set": leading setting, n, trailing setting
SetSeg(sh, k) == Group(sh.toks, 2, 3, k)

\* C21: the setting of the part of a matching segment is the segment's
\* leading setting if it has one, else its trailing setting if it has one,
\* else the group setting in front of the rep text, else null.
C21_SettingTieBreak ==
  (Parsed /\ shape.kind = "set") =>
     /\ Len(parts) = GroupCount(shape.toks, 2, 3)
     /\ \A k \in 1..Len(parts) :
           Bind(SetSeg(shape, k), LAMBDA g :
             /\ parts[k].reps = Float(g[2])
             /\ parts[k].setting = IF g[1] # <<>> THEN g[1]
                                   ELSE IF g[3] # <<>> THEN g[3]
                                   ELSE shape.toks[2])

\* C21 witness: "50lb (3)(lo)6(hi)+3" parsed: lo for the first part, the
\* group setting 3 for the second.
C21_Witness ==
  /\ Parsed /\ shape.kind = "set"
  /\ cell = <<"5","0","l","b"," ","(","3",")","(","l","o",")","6","(","h","i",")","+","3">>
  /\ Len(parts) = 2
  /\ parts[1].setting = <<"l","o">>
  /\ parts[2].setting = <<"3">>

\* the number of matches pat finds in s from position from on, as finditer
\* and sub scan them: leftmost first, the next one after the end of the last
RECURSIVE MatchCount(_, _)
MatchCount(s, from) ==
  Bind({i \in from..Len(s) : GroupMatchAt(s, i).found}, LAMBDA starts :
    IF starts = {} THEN 0
    ELSE 1 + MatchCount(s, GroupMatchAt(s, SetMin(starts)).end))

\* the number of places of s where ")" stands right before "("
Junctions(s) == Cardinality({i \in 1..(Len(s) - 1) : s[i] = ")" /\ s[i + 1] = "("})

\* pat matches nowhere in s
NoMatchLeft(s) == \A i \in 1..Len(s) : ~GroupMatchAt(s, i).found

\* C22 as stated: the loop returns for every input, every pass that finds a
\* match leaves fewer matches than it found, and the result holds no match.
C22_PassesReduceMatches ==
  /\ <>(epc = "returned")
  /\ [][(epc = "loop" /\ MatchCount(expand_blob, 1) > 0)
          => MatchCount(expand_blob', 1) < MatchCount(expand_blob, 1)]_vars
  /\ [](epc = "returned" => NoMatchLeft(expand_blob))

\* C22 amended: the loop returns for every input and the result holds no
\* match; a pass that finds a match can leave as many matches as it found,
\* what it reduces is the number of places where ")" stands before "(".
C22_LoopTerminates ==
  /\ <>(epc = "returned")
  /\ [][(epc = "loop" /\ MatchCount(expand_blob, 1) > 0)
          => Junctions(expand_blob') < Junctions(expand_blob)]_vars
  /\ [](epc = "returned" => NoMatchLeft(expand_blob))

\* C22 witness: "(1+2)(1+2)(h)", whose first setting "1+2" is a number list,
\* took two passes that each found one match.
C22_Witness ==
  /\ epc = "returned"
  /\ expand_arg = <<"(","1","+","2",")","(","1","+","2",")","(","h",")">>
  /\ expand_blob = <<"1","(","1","+","2",")","+","2","1","(","h",")","+","2","(","h",")">>

\* the rows above row i of the sheet whose exercise cell is not blank
NamedAbove(i) == {j \in 1..(i - 1) : sheet[j].exercise # ""}

\* the rows before row i of the frame that, with every row between them and
\* row i, have the exercise of row i
SameBlockBefore(i) ==
  {j \in 1..(i - 1) : \A k \in j..(i - 1) : frame[k].exercise = frame[i].exercise}

\* C23: after read_sheet a row with a blank exercise cell has the exercise of
\* the nearest row above it that names one, a row that names one keeps it,
\* and _set_row is 1 plus the number of rows right before it with the same
\* exercise: 1 at the first row of a block, one more with every row of it.
C23_SheetReader ==
  (fpc \in {"read", "flattened"}) =>
     /\ Len(frame) = Len(sheet)
     /\ \A i \in 1..Len(sheet) :
           /\ frame[i].exercise =
                 IF sheet[i].exercise # "" THEN sheet[i].exercise
                 ELSE sheet[SetMax(NamedAbove(i))].exercise
           /\ frame[i].set_row = 1 + Cardinality(SameBlockBefore(i))
           /\ frame[i].entries = sheet[i].entries

\* C23 witness: the rows A, blank, B were read as A, A, B with the
\* _set_row 1, 2, 1.
C23_Witness ==
  /\ fpc = "read"
  /\ Len(sheet) = 3
  /\ sheet[1].exercise = "A" /\ sheet[2].exercise = "" /\ sheet[3].exercise = "B"
  /\ frame[2].exercise = "A"
  /\ frame[1].set_row = 1 /\ frame[2].set_row = 2 /\ frame[3].set_row = 1


\* a table has no identifiable first column when it has no columns at all or
\* when the first cell of its header is blank
NoFirstColumn == columns = <<>> \/ Head(columns) = "Unnamed: 0"

\* C24: once the sheet reader has run on a table with no identifiable first
\* column, it has failed, and the error is a MissingColumnError.
C24_MissingColumnError ==
  (fpc \notin {"idle", "start"} /\ NoFirstColumn)
    => (fpc = "raised" /\ exc = "MissingColumnError")

\* a session is active: one is tracked, or the sheet has a row with the
\* session_status active
SessionActive ==
  \/ current_session_info # None
  \/ \E i \in 1..Len(values) : values[i].session_status = "active"

\* C25: a start_workout_session whose sheet read succeeds, made while a
\* session is tracked or the sheet has active rows, or with a template that is
\* not known, raises WorkoutAPIError and leaves the tracked session and the
\* sheet as they were.
C25_AtMostOneSession ==
  [][(/\ call'.op = "start"
      /\ call'.read_ok
      /\ (SessionActive \/ call'.template \notin DOMAIN get_workout_templates))
     => /\ returned' = "WorkoutAPIError"
        /\ current_session_info' = current_session_info
        /\ values' = values]_vars

\* C25 witness: the start of a known template was refused while a session
\* with a logged set is tracked.
C25_Witness ==
  /\ call.op = "start"
  /\ call.read_ok
  /\ call.template = "upper1"
  /\ returned = "WorkoutAPIError"
  /\ current_session_info # None
  /\ \E i \in 1..Len(values) : values[i].session_status = "active"

\* C30: a start_workout_session whose sheet read fails while a session is
\* tracked or the sheet has active rows starts no session and leaves the
\* tracked session as it was.
C30_FailedReadStartsNothing ==
  [][(/\ call'.op = "start"
      /\ ~call'.read_ok
      /\ SessionActive)
     => /\ returned' # "session_id"
        /\ current_session_info' = current_session_info]_vars

\* C26: delete(where) returns the number of entries select(where) returns on
\* the sheet just before, and leaves on the sheet the entries that select
\* did not return, for every where-clause, operator conditions included.
C26_DeleteAsSelect ==
  [][dbcall'.op = "delete"
       => /\ dbret'.count = Len(apply_where_clause(Entries(stored), dbcall'.where))
          /\ Entries(stored') =
                SelectSeq(Entries(stored), LAMBDA e : ~Matches(e, dbcall'.where))]_vars

\* the sets of a posted object in their order: exercise, 1-based position,
\* weight and reps
PostedSets(data) ==
  Concat([x \in 1..Len(data.exercises) |->
            [k \in 1..Len(data.exercises[x][2]) |->
               [exercise |-> data.exercises[x][1],
                set      |-> NatToText(k),
                weight   |-> Get(data.exercises[x][2][k], "weight"),
                reps     |-> Get(data.exercises[x][2][k], "reps")]]])

\* C27: a POST /api/workout that succeeds appends one row for every posted
\* set, in their order, with the exercise, the 1-based position of the set in
\* set_number, its weight in weight_lbs and its reps; and a GET /api/workouts
\* that follows it with a limit of at least the rows of the sheet returns,
\* for every posted set, a workout with its exercise, set, weight and reps.
C27_LogReadRoundTrip ==
  [][/\ (call'.op = "log" /\ returned'.status = 200)
          => Bind(PostedSets(call'.data), LAMBDA posted :
               /\ Len(values') = Len(values) + Len(posted)
               /\ \A k \in 1..Len(posted) :
                     Bind(values'[Len(values) + k], LAMBDA row :
                       /\ CellUnder(row, "exercise") = posted[k].exercise
                       /\ CellUnder(row, "set_number") = posted[k].set
                       /\ CellUnder(row, "weight_lbs") = posted[k].weight
                       /\ CellUnder(row, "reps") = posted[k].reps))
     /\ (/\ call.op = "log"
         /\ returned.status = 200
         /\ call'.op = "recent"
         /\ call'.limit >= Len(values))
          => Bind(PostedSets(call.data), LAMBDA posted :
               \A k \in 1..Len(posted) :
                  \E j \in 1..Len(returned'.workouts) :
                     /\ returned'.workouts[j].exercise = posted[k].exercise
                     /\ returned'.workouts[j].set = posted[k].set
                     /\ returned'.workouts[j].weight = posted[k].weight
                     /\ returned'.workouts[j].reps = posted[k].reps)]_vars

\* C28: a segment <Side><n><suffix>[*m] with a suffix of letters gives m
\* parts (one without *m), each with reps n, the side <Side> and the suffix,
\* in capitals and without the side letter, as its segment note.
C28_SidePreserved ==
  (Parsed /\ shape.kind = "sidenote") =>
     /\ Len(parts) = (IF shape.toks[5] = <<>> THEN 1 ELSE Int0(shape.toks[5]))
     /\ \A i \in 1..Len(parts) :
           /\ parts[i].reps = Float(shape.toks[3])
           /\ parts[i].side = shape.toks[2]
           /\ parts[i].segment_note = Upper(shape.toks[4])

\* the rows of the full view with the date and the exercise of row i
WrittenGroupOf(i) ==
  {j \in 1..Len(full_csv.rows) : /\ full_csv.rows[j][1] = full_csv.rows[i][1]
                                  /\ full_csv.rows[j][2] = full_csv.rows[i][2]}

\* C29: in the table flatten_many writes, the set numbers of the rows of one
\* date and exercise are 1..k, each on one row, whatever files were given.
C29_SetNumbersUnique ==
  full_csv.written =>
     \A i \in 1..Len(full_csv.rows) :
        /\ {full_csv.rows[j][3] : j \in WrittenGroupOf(i)} = 1..Cardinality(WrittenGroupOf(i))
        /\ \A j \in WrittenGroupOf(i) :
              full_csv.rows[j][3] = full_csv.rows[i][3] => j = i

====
